---- MODULE Spec2Model ----
(***************************************************************************)
(* A model of the QBF solver: the shared formula model, universal          *)
(* reduction, pure-literal deletion, Q-resolution, unit propagation, the   *)
(* preprocessing loop, literal selection, conflict analysis and the two    *)
(* search drivers (Q-DPLL and Q-CDCL).                                     *)
(*                                                                         *)
(* Conventions.  Clause indices are 1-based here (0-based in the source);  *)
(* the reason index 0 stands for Option::None.  A literal is a nonzero     *)
(* integer.  The multimap clause_references is a function from literals    *)
(* to the sequence of clause indices stored under that key; a key is       *)
(* present iff its sequence is non-empty.                                  *)
(***************************************************************************)
EXTENDS Integers, Sequences, FiniteSets, TLC

\* ------------------------------------------------------------------ bounds
NumVars == 3
MaxClauses == 2
MaxClauseLen == 3
MaxLearned == 3
MaxRestarts == 3
MaxListLen == 2

\* ----------------------------------------------------------------- helpers
Abs(l) == IF l < 0 THEN -l ELSE l

Contains(s, x) == \E i \in 1..Len(s) : s[i] = x

Range(s) == {s[i] : i \in 1..Len(s)}

Retain(s, x) == SelectSeq(s, LAMBDA y : y # x)

RemoveAt(s, i) == SubSeq(s, 1, i - 1) \o SubSeq(s, i + 1, Len(s))

RECURSIVE Reverse(_)
Reverse(s) == IF s = <<>> THEN <<>> ELSE Reverse(Tail(s)) \o <<Head(s)>>

RECURSIVE SetToSeq(_)
SetToSeq(S) ==
    IF S = {} THEN <<>>
    ELSE LET x == CHOOSE y \in S : \A z \in S : y <= z
         IN <<x>> \o SetToSeq(S \ {x})

RECURSIVE Perms(_)
Perms(S) ==
    IF S = {} THEN {<<>>}
    ELSE UNION {{<<x>> \o p : p \in Perms(S \ {x})} : x \in S}

\* the sequence s itself, as an explicit tuple (so TLC computes its elements once)
AsSeq(s) == SubSeq(s, 1, Len(s))

\* ------------------------------------------------------- formula (static)
VARIABLES
    variable_quantification, \* variable -> [q_type, q_level] (Matrix field, never mutated)
    quantification_order,    \* the two literal orders (Matrix field, never mutated)
    formula,     \* the parsed clause list (sequence of literal sequences)
    config,      \* the Config record
    restart_constant, \* the argument CDCLMatrix::new gives RestartData::new
    solver,      \* "DPLL" | "CDCL": which pipeline is running
    pc,          \* control location of the running pipeline
    matrix,      \* the (CDCL)Matrix being worked on
    stack,       \* the driver's call stack, innermost frame last
    arg,         \* decision_branch of the pending driver call (0 = None)
    ret,         \* the value returned by the last driver call
    expired,     \* TRUE once timer.elapsed() exceeds the deadline
    dpll_result, \* result of the DPLL pipeline ("none" until it ends)
    cdcl_result, \* result of the CDCL pipeline ("none" until it ends)
    pp_cont,     \* where the running preprocess call returns to
    operation    \* a call of a function on its own: its arguments and its value

vars == <<variable_quantification, quantification_order, formula, config, restart_constant, solver, pc, matrix, stack, arg, ret,
          expired, dpll_result, cdcl_result, pp_cont, operation>>

\* the variables of the instance and their literals
Vars == DOMAIN variable_quantification

Lits == {l \in (-Len(variable_quantification))..Len(variable_quantification) : l # 0}

QType(v) == variable_quantification[v].q_type

QLevel(v) == variable_quantification[v].q_level

existential_literal_order == quantification_order.existential_literal_order

universal_literal_order == quantification_order.universal_literal_order

\* position of the literal's variable in sort_order; 0 is Option::None
OrderPosition(sort_order, l) ==
    IF \E i \in 1..Len(sort_order) : sort_order[i] = l \/ sort_order[i] = -l
    THEN CHOOSE i \in 1..Len(sort_order) :
            /\ (sort_order[i] = l \/ sort_order[i] = -l)
            /\ \A j \in 1..(i - 1) : ~(sort_order[j] = l \/ sort_order[j] = -l)
    ELSE 0

RECURSIVE InsertSorted(_, _, _)
InsertSorted(sort_order, sorted, l) ==
    IF sorted = <<>> THEN <<l>>
    ELSE LET last == sorted[Len(sorted)]
         IN IF OrderPosition(sort_order, last) <= OrderPosition(sort_order, l)
            THEN Append(sorted, l)
            ELSE Append(InsertSorted(sort_order, SubSeq(sorted, 1, Len(sorted) - 1), l), last)

\* the literals as they come
sort_literals_order_skipped(sort_order, literals) == literals

\* util::sort_literals_order: a stable sort by position in sort_order.
RECURSIVE sort_literals_order(_, _)
sort_literals_order(sort_order, literals) ==
    IF literals = <<>> THEN <<>>
    ELSE InsertSorted(sort_order,
                      sort_literals_order(sort_order, SubSeq(literals, 1, Len(literals) - 1)),
                      literals[Len(literals)])

\* ------------------------------------------------------------------ Clause
Clause(e, a) == [e_literals |-> e, a_literals |-> a, is_removed |-> FALSE]

new_empty_clause == Clause(<<>>, <<>>)

get_clause_length(c) == Len(c.a_literals) + Len(c.e_literals)

\* Clause::is_unit_clause: the unit literal, or 0 for None
is_unit_clause(c) ==
    IF Len(c.e_literals) + Len(c.a_literals) = 1 /\ ~c.is_removed
    THEN IF c.a_literals = <<>> THEN c.e_literals[1] ELSE c.a_literals[1]
    ELSE 0

get_literal_list(c) == c.e_literals \o c.a_literals

is_empty(c) == c.e_literals = <<>> /\ c.a_literals = <<>> /\ ~c.is_removed

remove_a_literals(c, literals) ==
    [c EXCEPT !.a_literals = SelectSeq(@, LAMBDA x : ~Contains(literals, x))]

remove_a_literal(c, literal) == [c EXCEPT !.a_literals = Retain(@, literal)]

remove_e_literal(c, literal) == [c EXCEPT !.e_literals = Retain(@, literal)]

\* util::convert_literals_to_clause
convert_literals_to_clause(literals) ==
    Clause(sort_literals_order(existential_literal_order,
                               SelectSeq(literals, LAMBDA l : QType(Abs(l)) = "E")),
           sort_literals_order(universal_literal_order,
                               SelectSeq(literals, LAMBDA l : QType(Abs(l)) # "E")))

\* ------------------------------------------------------------------ parsing
\* Matrix::create_structures on a closed QDIMACS instance whose prefix lists
\* the variables 1..NumVars in order and whose clause lines are `lines`.
ParsedClause(line) ==
    Clause(sort_literals_order(existential_literal_order,
               SelectSeq(line, LAMBDA l : ~(Contains(universal_literal_order, l)
                                            \/ Contains(universal_literal_order, -l)))),
           sort_literals_order(universal_literal_order,
               SelectSeq(line, LAMBDA l : Contains(universal_literal_order, l)
                                          \/ Contains(universal_literal_order, -l))))

\* MultiMap::insert(key, value)
RefsInsert(refs, key, value) == [refs EXCEPT ![key] = Append(@, value)]

RECURSIVE InsertLiterals(_, _, _)
InsertLiterals(refs, literals, clause_index) ==
    IF literals = <<>> THEN refs
    ELSE InsertLiterals(RefsInsert(refs, Head(literals), clause_index),
                        Tail(literals), clause_index)

RECURSIVE IndexFrom(_, _, _)
IndexFrom(clause_list, index, refs) ==
    IF index > Len(clause_list) THEN refs
    ELSE IndexFrom(clause_list, index + 1,
                   InsertLiterals(refs, get_literal_list(clause_list[index]), index))

EmptyRefs == [l \in Lits |-> <<>>]

\* the index a clause list induces, built as the rebuild loops of the source
\* build it: every literal of every clause (removed or not) is inserted
IndexOf(clause_list) == IndexFrom(clause_list, 1, EmptyRefs)

\* the prefix lines "e ..." / "a ..." listing the variables 1..n in order with
\* kinds[v] the kind of variable v: consecutive lines of one kind share a level
ParsedVariableQuantification(kinds) ==
    [v \in DOMAIN kinds |->
        [q_type |-> kinds[v],
         q_level |-> 1 + Cardinality({j \in 1..(v - 1) : kinds[j] # kinds[j + 1]})]]

ParsedQuantificationOrder(kinds) ==
    [existential_literal_order |->
         SelectSeq([i \in DOMAIN kinds |-> i], LAMBDA v : kinds[v] = "E"),
     universal_literal_order |->
         SelectSeq([i \in DOMAIN kinds |-> i], LAMBDA v : kinds[v] = "A")]

ParsedQuantifierList ==
    AsSeq([i \in Vars |-> [q_type |-> QType(i), literal |-> i, q_level |-> QLevel(i)]])

create_structures(lines) ==
    LET clause_list == AsSeq([i \in 1..Len(lines) |-> ParsedClause(lines[i])])
    IN [quantifier_list     |-> ParsedQuantifierList,
        clause_list         |-> clause_list,
        clause_count        |-> Len(lines),
        clause_references   |-> IndexOf(clause_list)]

\* ------------------------------------------------------------- ClauseSet
contains_no_clause_count(m) == m.clause_count <= 0

contains_empty_set(m) == m.clause_count = 0

contains_empty_clause(m) == m.clause_count = -1

check_solved(m) == contains_empty_clause(m) \/ contains_empty_set(m)

\* ClauseSet::check_contradiction(Some(clause_index)): the matrix afterwards
check_contradiction(m, clause_index) ==
    IF is_empty(m.clause_list[clause_index]) THEN [m EXCEPT !.clause_count = -1] ELSE m

\* MultiMap::retain(|_, v| v != clause_index); emptied keys disappear
RefsRetainNot(refs, clause_index) == [l \in Lits |-> Retain(refs[l], clause_index)]

\* MultiMap::remove(key)
RefsRemove(refs, key) == [refs EXCEPT ![key] = <<>>]

contains_key(refs, key) == key \in Lits /\ refs[key] # <<>>

\* ---------------------------------------------------------------- util.rs
\* get_quantifier_type that compares the entries with the literal alone
get_quantifier_type_same_sign(quantifier_list, unit_literal) ==
    LET hits == {i \in 1..Len(quantifier_list) : quantifier_list[i].literal = unit_literal}
    IN IF hits = {} THEN [q_type |-> "E", position |-> 0]
       ELSE LET i == CHOOSE h \in hits : \A g \in hits : h <= g
            IN [q_type |-> quantifier_list[i].q_type, position |-> i]

\* get_quantifier_type: position 0 is None
get_quantifier_type(quantifier_list, unit_literal) ==
    LET hits == {i \in 1..Len(quantifier_list) :
                    \/ quantifier_list[i].literal = unit_literal
                    \/ quantifier_list[i].literal = -unit_literal}
    IN IF hits = {} THEN [q_type |-> "E", position |-> 0]
       ELSE LET i == CHOOSE h \in hits : \A g \in hits : h <= g
            IN [q_type |-> quantifier_list[i].q_type, position |-> i]

get_unit_literals(clause_list) ==
    LET units == [i \in 1..Len(clause_list) |-> is_unit_clause(clause_list[i])]
    IN SelectSeq(units, LAMBDA u : u # 0)

\* get_variable_state_sum that prefers the positive literal on a tie
get_variable_state_sum_tie_positive(refs, literal) ==
    [appearances |-> Len(refs[literal]) + Len(refs[-literal]),
     choose_positive |-> Len(refs[literal]) >= Len(refs[-literal])]

\* get_variable_state_sum: <<appearances, choose_positive>>
get_variable_state_sum(refs, literal) ==
    LET pos_appearances == Len(refs[literal])
        neg_appearances == Len(refs[-literal])
    IN [appearances |-> pos_appearances + neg_appearances,
        choose_positive |-> ~(neg_appearances >= pos_appearances)]

\* ------------------------------------------------- universal_reduction.rs
RECURSIVE DetectFrom(_, _)
DetectFrom(clause, i) ==
    IF i = 0 THEN <<>>
    ELSE IF clause.e_literals = <<>> THEN clause.a_literals
    ELSE LET max_quantification_e_literal == clause.e_literals[Len(clause.e_literals)]
             a_literal == clause.a_literals[i]
         IN IF QLevel(Abs(a_literal)) > QLevel(Abs(max_quantification_e_literal))
            THEN <<a_literal>> \o DetectFrom(clause, i - 1)
            ELSE <<>>

detect_every_universal_literal(clause) == clause.a_literals

detect_universal_literal(clause) == DetectFrom(clause, Len(clause.a_literals))

remove_universal_literal(m, literals, clause_index) ==
    check_contradiction(
        [m EXCEPT !.clause_list[clause_index] = remove_a_literals(@, literals)],
        clause_index)

readd_universal_literal_unsorted(m, literals, clause_index) ==
    [m EXCEPT !.clause_list[clause_index].a_literals = @ \o literals]

readd_universal_literal(m, literals, clause_index) ==
    [m EXCEPT !.clause_list[clause_index].a_literals =
        sort_literals_order(universal_literal_order, @ \o literals)]

\* get_universal_literals_for_reduction: clauses are visited last to first
get_universal_literals_for_reduction(clause_list) ==
    LET all == [k \in 1..Len(clause_list) |->
                  LET position == Len(clause_list) + 1 - k
                  IN [clause_index |-> position,
                      values |-> detect_universal_literal(clause_list[position])]]
    IN SelectSeq(all, LAMBDA r : r.values # <<>>)

RECURSIVE ApplyReductions(_, _)
ApplyReductions(m, reductions) ==
    IF reductions = <<>> THEN m
    ELSE ApplyReductions(
            remove_universal_literal(m, Head(reductions).values, Head(reductions).clause_index),
            Tail(reductions))

\* ------------------------------------------------ pure_literal_deletion.rs
\* get_pure_literals: the keys whose complement is no key.  The source
\* returns them in the iteration order of a HashMap, which is arbitrary.
get_pure_literals(refs) == {k \in Lits : contains_key(refs, k) /\ ~contains_key(refs, -k)}

\* new_unit_literals.push(..) when is_unit_clause gave Some (0 is None)
PushUnit(units, unit_clause_check) ==
    IF unit_clause_check # 0 THEN Append(units, unit_clause_check) ELSE units

\* the inner loop of remove_pure_literals over the clauses indexed under literal
RECURSIVE PureClauseLoop(_, _, _, _, _)
PureClauseLoop(m, literal, q_type, idxs, units) ==
    IF idxs = <<>> THEN [m |-> m, units |-> units, returned |-> FALSE]
    ELSE IF q_type = "E"
    THEN LET Removed(m1) ==
                 IF contains_empty_set(m1)
                 THEN [m |-> m1, units |-> units, returned |-> TRUE]
                 ELSE PureClauseLoop(m1, literal, q_type, Tail(idxs), units)
         IN Removed([m EXCEPT !.clause_list[Head(idxs)].is_removed = TRUE,
                              !.clause_count = @ - 1,
                              !.clause_references = RefsRetainNot(@, Head(idxs))])
    ELSE LET Checked(m2, m3) ==
                 IF is_empty(m2.clause_list[Head(idxs)])
                 THEN [m |-> m3, units |-> units, returned |-> TRUE]
                 ELSE PureClauseLoop(m3, literal, q_type, Tail(idxs),
                          PushUnit(units, is_unit_clause(m3.clause_list[Head(idxs)])))
             Reduced(m2) == Checked(m2, check_contradiction(m2, Head(idxs)))
             Detected(m1, universal_literals) ==
                 Reduced(IF universal_literals # <<>>
                         THEN remove_universal_literal(m1, universal_literals, Head(idxs))
                         ELSE m1)
             Removed(m1) ==
                 Detected(m1, IF config.universal_reduction
                              THEN detect_universal_literal(m1.clause_list[Head(idxs)])
                              ELSE <<>>)
         IN Removed([m EXCEPT !.clause_list[Head(idxs)] = remove_a_literal(@, literal),
                              !.clause_references = RefsRemove(@, literal)])

\* the prefix left as it is
RemoveQuantifier_skipped(m, q) == m

\* Vec::remove(position) of the prefix entry get_quantifier_type found
RemoveQuantifier(m, q) ==
    IF q.position # 0 THEN [m EXCEPT !.quantifier_list = RemoveAt(@, q.position)] ELSE m

\* remove_pure_literals on the list pure_literals: [m, units]
RECURSIVE PureLiteralLoop(_, _, _)
PureLiteralLoop(m, pure_literals, units) ==
    IF pure_literals = <<>> THEN [m |-> m, units |-> units]
    ELSE LET Done(r) ==
                 IF r.returned THEN [m |-> r.m, units |-> r.units]
                 ELSE PureLiteralLoop(r.m, Tail(pure_literals), r.units)
             Unlisted(m1, q) ==
                 Done(PureClauseLoop(m1, Head(pure_literals), q.q_type,
                                     m1.clause_references[Head(pure_literals)], units))
             Found(q) == Unlisted(RemoveQuantifier(m, q), q)
         IN Found(get_quantifier_type(m.quantifier_list, Head(pure_literals)))

remove_pure_literals(m, pure_literals) == PureLiteralLoop(m, pure_literals, <<>>)

\* ---------------------------------------------------- dpll/unit_propagate.rs
\* the loop over the clauses holding the propagated literal
RECURSIVE SatisfyLoop(_, _)
SatisfyLoop(m, idxs) ==
    IF idxs = <<>> THEN [m |-> m, returned |-> FALSE]
    ELSE LET m1 == [m EXCEPT !.clause_list[Head(idxs)].is_removed = TRUE,
                             !.clause_count = @ - 1,
                             !.clause_references = RefsRetainNot(@, Head(idxs))]
         IN IF contains_empty_set(m1) THEN [m |-> m1, returned |-> TRUE]
            ELSE SatisfyLoop(m1, Tail(idxs))

RemoveComplement(m, clause_index, complement_unit_literal) ==
    [m EXCEPT !.clause_list[clause_index] =
                  IF QType(Abs(complement_unit_literal)) = "E"
                  THEN remove_e_literal(@, complement_unit_literal)
                  ELSE remove_a_literal(@, complement_unit_literal),
              !.clause_references = RefsRemove(@, complement_unit_literal)]

\* the loop over the clauses holding the complement (DPLL variant)
RECURSIVE DpllFalsifyLoop(_, _, _, _)
DpllFalsifyLoop(m, complement_unit_literal, idxs, units) ==
    IF idxs = <<>> THEN [m |-> m, units |-> units, returned |-> FALSE]
    ELSE LET Reduced(m3, universal_literals) ==
                 IF universal_literals # <<>> /\ contains_empty_clause(m3)
                 THEN [m |-> m3, units |-> units, returned |-> TRUE]
                 ELSE DpllFalsifyLoop(m3, complement_unit_literal, Tail(idxs),
                          PushUnit(units, is_unit_clause(m3.clause_list[Head(idxs)])))
             Detected(m2, universal_literals) ==
                 Reduced(IF universal_literals # <<>>
                         THEN remove_universal_literal(m2, universal_literals, Head(idxs))
                         ELSE m2,
                         universal_literals)
             Checked(m1, m2) ==
                 IF is_empty(m1.clause_list[Head(idxs)])
                 THEN [m |-> m2, units |-> units, returned |-> TRUE]
                 ELSE Detected(m2, IF config.universal_reduction
                                   THEN detect_universal_literal(m2.clause_list[Head(idxs)])
                                   ELSE <<>>)
             Removed(m1) == Checked(m1, check_contradiction(m1, Head(idxs)))
         IN Removed(RemoveComplement(m, Head(idxs), complement_unit_literal))

\* one iteration of the propagation loop, up to the pure-literal step
DpllPropagateLiteral(m, temp_unit_literal) ==
    LET Satisfied(s) ==
            IF s.returned THEN [m |-> s.m, units |-> <<>>, returned |-> TRUE]
            ELSE DpllFalsifyLoop(s.m, -temp_unit_literal,
                                 s.m.clause_references[-temp_unit_literal], <<>>)
        Unlisted(m1, q) ==
            IF q.q_type = "A"
            THEN [m |-> [m1 EXCEPT !.clause_count = -1], units |-> <<>>, returned |-> TRUE]
            ELSE Satisfied(SatisfyLoop(m1, m1.clause_references[temp_unit_literal]))
        Found(q) == Unlisted(RemoveQuantifier(m, q), q)
    IN Found(get_quantifier_type(m.quantifier_list, temp_unit_literal))

\* the loop of dpll::unit_propagate: the set of matrices it can leave (one per
\* order in which get_pure_literals may list the pure literals), each with the
\* propagation count of the statistics (one increment per literal dequeued)
RECURSIVE DpllPropagateLoop(_, _, _)
DpllPropagateLoop(m, new_unit_literals, propagation_count) ==
    IF new_unit_literals = <<>> THEN {[m |-> m, propagation_count |-> propagation_count]}
    ELSE LET Return(m1) == {[m |-> m1, propagation_count |-> propagation_count + 1]}
             Deleted(d) ==
                 IF contains_empty_clause(d.m) THEN Return(d.m)
                 ELSE DpllPropagateLoop(d.m, d.units, propagation_count + 1)
             Pure(r, pure_literals) ==
                 IF pure_literals = {} THEN Return(r.m)
                 ELSE UNION {Deleted(remove_pure_literals(r.m, order))
                             : order \in Perms(pure_literals)}
             Propagated(r, queue) ==
                 IF r.returned THEN Return(r.m)
                 ELSE IF config.pure_literal_deletion /\ queue = <<>>
                 THEN Pure(r, get_pure_literals(r.m.clause_references))
                 ELSE DpllPropagateLoop(r.m, queue, propagation_count + 1)
             Step(r) == Propagated(r, Tail(new_unit_literals) \o r.units)
         IN Step(DpllPropagateLiteral(m, Head(new_unit_literals)))

\* dpll::unit_propagate: the set of matrices it can leave
dpll_unit_propagate(m, new_unit_literals) ==
    {r.m : r \in DpllPropagateLoop(m, new_unit_literals, 0)}

\* ------------------------------------------------------ literal_selection.rs
\* select_literal that takes the head of the prefix whatever it is
select_literal_head(m) ==
    IF m.quantifier_list = <<>>
    THEN [m |-> m, literal |-> 0, q_type |-> "E", panic |-> TRUE]
    ELSE [m |-> [m EXCEPT !.quantifier_list = Tail(@)],
          literal |-> Head(m.quantifier_list).literal,
          q_type |-> Head(m.quantifier_list).q_type, panic |-> FALSE]

\* select_literal: pops prefix entries until one occurs in the index.
\* Vec::remove(0) on an empty prefix panics.
RECURSIVE select_literal(_)
select_literal(m) ==
    IF m.quantifier_list = <<>>
    THEN [m |-> m, literal |-> 0, q_type |-> "E", panic |-> TRUE]
    ELSE LET quantifier == Head(m.quantifier_list)
             m1 == [m EXCEPT !.quantifier_list = Tail(@)]
         IN IF ~contains_key(m.clause_references, quantifier.literal)
               /\ ~contains_key(m.clause_references, -quantifier.literal)
            THEN select_literal(m1)
            ELSE [m |-> m1, literal |-> quantifier.literal,
                  q_type |-> quantifier.q_type, panic |-> FALSE]

\* the scan of select_literal_vss from prefix position index on
RECURSIVE VssScan(_, _, _)
VssScan(m, index, st) ==
    IF index > Len(m.quantifier_list) THEN st
    ELSE LET q == m.quantifier_list[index] IN
         IF ~contains_key(m.clause_references, q.literal)
            /\ ~contains_key(m.clause_references, -q.literal)
         THEN VssScan(m, index + 1,
                      [st EXCEPT !.remove_indices = Append(@, index)])
         ELSE IF q.q_type # st.top_level_quantification /\ st.max_appearences > 0
         THEN st
         ELSE LET vss == get_variable_state_sum(m.clause_references, q.literal)
                  st1 == [st EXCEPT !.top_level_quantification = q.q_type]
              IN IF vss.appearances > st.max_appearences
                 THEN VssScan(m, index + 1,
                              [st1 EXCEPT !.choose_positive = vss.choose_positive,
                                          !.max_appearences = vss.appearances,
                                          !.choice = index])
                 ELSE VssScan(m, index + 1, st1)

\* the closing loop of select_literal_vss: drop the vacuous entries, last first
RECURSIVE VssPrune(_, _, _)
VssPrune(quantifier_list, remove_indices, choice) ==
    IF remove_indices = <<>> THEN [quantifier_list |-> quantifier_list, panic |-> FALSE]
    ELSE LET index == remove_indices[Len(remove_indices)]
             at == IF index > choice THEN index - 1 ELSE index
         IN IF at > Len(quantifier_list)
            THEN [quantifier_list |-> quantifier_list, panic |-> TRUE]
            ELSE VssPrune(RemoveAt(quantifier_list, at),
                          SubSeq(remove_indices, 1, Len(remove_indices) - 1), choice)

\* select_literal_vss; get(0).unwrap() on an empty prefix panics
select_literal_vss(m) ==
    IF m.quantifier_list = <<>>
    THEN [m |-> m, literal |-> 0, q_type |-> "E", panic |-> TRUE]
    ELSE LET st == VssScan(m, 1,
                     [max_appearences |-> 0, remove_indices |-> <<>>, choice |-> 1,
                      top_level_quantification |-> m.quantifier_list[1].q_type,
                      choose_positive |-> TRUE])
             quantifier == m.quantifier_list[st.choice]
             pruned == VssPrune(RemoveAt(m.quantifier_list, st.choice),
                                st.remove_indices, st.choice)
         IN [m |-> [m EXCEPT !.quantifier_list = pruned.quantifier_list],
             literal |-> IF st.choose_positive THEN quantifier.literal
                         ELSE -quantifier.literal,
             q_type |-> quantifier.q_type,
             panic |-> pruned.panic]

SelectLiteral(m) ==
    IF config.literal_selection = "Ordered" THEN select_literal(m) ELSE select_literal_vss(m)

\* ------------------------------------------------------- dpll/preprocess.rs
\* dpll::simplify_constraints
dpll_simplify_constraints(m) ==
    LET clause_list == SelectSeq(m.clause_list, LAMBDA c : ~c.is_removed)
    IN [m EXCEPT !.clause_list = clause_list,
                 !.clause_references = IndexOf(clause_list)]

\* the test that ends the preprocessing loop
PreprocessFinished(m) ==
    /\ (config.pure_literal_deletion => get_pure_literals(m.clause_references) = {})
    /\ (config.universal_reduction =>
            get_universal_literals_for_reduction(m.clause_list) = <<>>)
    /\ get_unit_literals(m.clause_list) = <<>>

\* ------------------------------------------------------------ resolution.rs
\* the scan of resolve for a literal whose complement was seen before
RECURSIVE ResolveInvalid(_, _)
ResolveInvalid(literals, literals_checked) ==
    IF literals = <<>> THEN FALSE
    ELSE IF -Head(literals) \in literals_checked THEN TRUE
    ELSE ResolveInvalid(Tail(literals), literals_checked \cup {Head(literals)})

resolve_unchecked(literals_list_1, literals_list_2, literal) ==
    [valid |-> TRUE,
     literals |-> SetToSeq((Range(literals_list_1) \cup Range(literals_list_2))
                               \ {literal, -literal})]

\* resolve: [valid, literals]; valid = FALSE is None.  The source lists the
\* resolvent in the iteration order of a HashSet; here in ascending order.
resolve(literals_list_1, literals_list_2, literal) ==
    LET resolved_literals ==
            SetToSeq((Range(literals_list_1) \cup Range(literals_list_2)) \ {literal, -literal})
    IN IF ResolveInvalid(resolved_literals, {})
       THEN [valid |-> FALSE, literals |-> <<>>]
       ELSE [valid |-> TRUE, literals |-> resolved_literals]

\* (len as f32 * ratio) as usize, for a ratio given as a fraction
Scaled(len, ratio) == (len * ratio.num) \div ratio.den

\* the loop of pre_resolution over neg_references for one clause_1.  st holds
\* clause_hashtable, resolved_clauses, resolved_clauses_for_literal and panic
\* (an index outside clause_list).
RECURSIVE ResolveNegLoop(_, _, _, _, _, _)
\* after the resolvent was examined: the test that breaks the inner loop
ResolveNegNext(st, counted, clause_list, clause_1, neg_references, literal, resolutions_per_literal) ==
    IF counted /\ st.resolved_clauses_for_literal >= resolutions_per_literal THEN st
    ELSE ResolveNegLoop(st, clause_list, clause_1, Tail(neg_references), literal,
                        resolutions_per_literal)

\* ResolveNegAccept that leaves a resolvent of length at most repeat_above out
\* of resolved_clauses_for_literal
ResolveNegAccept_short_uncounted(st, resolved_literals, resolved_clause, clause_list, clause_1, neg_references, literal, resolutions_per_literal) ==
    IF resolved_clause \notin st.clause_hashtable
    THEN ResolveNegNext([st EXCEPT !.clause_hashtable = @ \cup {resolved_clause},
                                   !.resolved_clauses = Append(@, resolved_clause),
                                   !.resolved_clauses_for_literal =
                                       IF Len(resolved_literals) <= config.resolution_config.repeat_above
                                       THEN @ ELSE @ + 1],
                        TRUE, clause_list, clause_1, neg_references, literal,
                        resolutions_per_literal)
    ELSE ResolveNegNext(st, FALSE, clause_list, clause_1, neg_references, literal,
                        resolutions_per_literal)

\* a valid resolvent is kept if clause_hashtable does not hold its clause
ResolveNegAccept(st, resolved_literals, resolved_clause, clause_list, clause_1, neg_references, literal, resolutions_per_literal) ==
    IF resolved_clause \notin st.clause_hashtable
    THEN ResolveNegNext([st EXCEPT !.clause_hashtable = @ \cup {resolved_clause},
                                   !.resolved_clauses = Append(@, resolved_clause),
                                   !.resolved_clauses_for_literal = @ + 1],
                        Len(resolved_literals) <= config.resolution_config.repeat_above,
                        clause_list, clause_1, neg_references, literal,
                        resolutions_per_literal)
    ELSE ResolveNegNext(st, FALSE, clause_list, clause_1, neg_references, literal,
                        resolutions_per_literal)

ResolveNegStep(st, resolution, clause_list, clause_1, neg_references, literal, resolutions_per_literal) ==
    IF ~resolution.valid
    THEN ResolveNegNext(st, FALSE, clause_list, clause_1, neg_references, literal,
                        resolutions_per_literal)
    ELSE ResolveNegAccept(st, resolution.literals,
                          convert_literals_to_clause(resolution.literals),
                          clause_list, clause_1, neg_references, literal,
                          resolutions_per_literal)

ResolveNegLoop(st, clause_list, clause_1, neg_references, literal, resolutions_per_literal) ==
    IF neg_references = <<>> THEN st
    ELSE IF Head(neg_references) \notin 1..Len(clause_list) THEN [st EXCEPT !.panic = TRUE]
    ELSE ResolveNegStep(st,
                        resolve(get_literal_list(clause_1),
                                get_literal_list(clause_list[Head(neg_references)]), literal),
                        clause_list, clause_1, neg_references, literal,
                        resolutions_per_literal)

\* the loop of pre_resolution over pos_references for one literal
RECURSIVE ResolvePosLoop(_, _, _, _, _, _)
ResolvePosNext(st, clause_list, pos_references, neg_references, literal, resolutions_per_literal) ==
    IF st.panic \/ st.resolved_clauses_for_literal >= resolutions_per_literal THEN st
    ELSE ResolvePosLoop(st, clause_list, Tail(pos_references), neg_references, literal,
                        resolutions_per_literal)

ResolvePosLoop(st, clause_list, pos_references, neg_references, literal, resolutions_per_literal) ==
    IF pos_references = <<>> THEN st
    ELSE IF Head(pos_references) \notin 1..Len(clause_list) THEN [st EXCEPT !.panic = TRUE]
    ELSE ResolvePosNext(ResolveNegLoop(st, clause_list, clause_list[Head(pos_references)],
                                       neg_references, literal, resolutions_per_literal),
                        clause_list, pos_references, neg_references, literal,
                        resolutions_per_literal)

\* the loop of pre_resolution over the quantifier list in one iteration
RECURSIVE ResolveQuantifierLoop(_, _, _, _, _, _)
ResolveQuantifierNext(st, quantifiers, clause_list, clause_references, resolutions_per_literal, resolved_clauses_cap) ==
    IF st.panic \/ Len(st.resolved_clauses) > resolved_clauses_cap THEN st
    ELSE ResolveQuantifierLoop(st, Tail(quantifiers), clause_list, clause_references,
                               resolutions_per_literal, resolved_clauses_cap)

ResolveQuantifier(st, quantifier, clause_list, clause_references, resolutions_per_literal) ==
    IF /\ quantifier.q_type = "E"
       /\ contains_key(clause_references, quantifier.literal)
       /\ contains_key(clause_references, -quantifier.literal)
    THEN ResolvePosLoop(st, clause_list, clause_references[quantifier.literal],
                        clause_references[-quantifier.literal], quantifier.literal,
                        resolutions_per_literal)
    ELSE st

ResolveQuantifierLoop(st, quantifiers, clause_list, clause_references, resolutions_per_literal, resolved_clauses_cap) ==
    IF quantifiers = <<>> THEN st
    ELSE ResolveQuantifierNext(
             ResolveQuantifier([st EXCEPT !.resolved_clauses_for_literal = 0],
                               Head(quantifiers), clause_list, clause_references,
                               resolutions_per_literal),
             quantifiers, clause_list, clause_references,
             resolutions_per_literal, resolved_clauses_cap)

\* add_resolved_clauses_independently
add_resolved_clauses_independently(clause_list, clause_references, resolved_clauses) ==
    [clause_list |-> clause_list \o resolved_clauses,
     clause_references |-> IndexFrom(clause_list \o resolved_clauses, Len(clause_list) + 1,
                                     clause_references)]

\* the iterations of pre_resolution: [resolved_clause_database, panic]
RECURSIVE ResolveIterations(_, _, _, _, _, _, _, _)
ResolveIterationNext(m, iteration, st, added, resolved_clause_database, resolutions_per_literal, resolved_clauses_cap) ==
    IF st.panic
    THEN [resolved_clause_database |-> resolved_clause_database, panic |-> TRUE]
    ELSE IF st.resolved_clauses = <<>>
    THEN [resolved_clause_database |-> resolved_clause_database, panic |-> FALSE]
    ELSE ResolveIterations(m, iteration + 1, st.clause_hashtable,
                           added.clause_list, added.clause_references,
                           resolved_clause_database \o st.resolved_clauses,
                           resolutions_per_literal, resolved_clauses_cap)

ResolveIterationEnd(m, iteration, st, clause_list, clause_references, resolved_clause_database, resolutions_per_literal, resolved_clauses_cap) ==
    ResolveIterationNext(m, iteration, st,
        IF iteration < config.resolution_config.iterations - 1 /\ ~st.panic
        THEN add_resolved_clauses_independently(clause_list, clause_references,
                                                st.resolved_clauses)
        ELSE [clause_list |-> clause_list, clause_references |-> clause_references],
        resolved_clause_database, resolutions_per_literal, resolved_clauses_cap)

ResolveIterations(m, iteration, clause_hashtable, clause_list, clause_references, resolved_clause_database, resolutions_per_literal, resolved_clauses_cap) ==
    IF iteration >= config.resolution_config.iterations
    THEN [resolved_clause_database |-> resolved_clause_database, panic |-> FALSE]
    ELSE ResolveIterationEnd(m, iteration,
             ResolveQuantifierLoop(
                 [clause_hashtable |-> clause_hashtable, resolved_clauses |-> <<>>,
                  resolved_clauses_for_literal |-> 0, panic |-> FALSE],
                 m.quantifier_list, clause_list, clause_references,
                 resolutions_per_literal, resolved_clauses_cap),
             clause_list, clause_references, resolved_clause_database,
             resolutions_per_literal, resolved_clauses_cap)

\* add_resolved_clauses that inserts the resolvents of every length
RECURSIVE add_resolved_clauses_any_length(_, _, _, _)
add_resolved_clauses_any_length(m, resolved_clauses, max_clause_length, original_clause_list) ==
    IF resolved_clauses = <<>>
    THEN [m |-> m, original_clause_list |-> original_clause_list, panic |-> FALSE]
    ELSE add_resolved_clauses_any_length(
             [m EXCEPT !.clause_list = Append(@, Head(resolved_clauses)),
                       !.clause_count = @ + 1,
                       !.clause_references =
                           InsertLiterals(@, get_literal_list(Head(resolved_clauses)),
                                          Len(m.clause_list) + 1)],
             Tail(resolved_clauses), max_clause_length,
             IF original_clause_list # <<>>
             THEN Append(original_clause_list, Head(resolved_clauses))
             ELSE original_clause_list)

\* add_resolved_clauses: [m, original_clause_list, panic]
RECURSIVE add_resolved_clauses(_, _, _, _)
add_resolved_clauses(m, resolved_clauses, max_clause_length, original_clause_list) ==
    IF resolved_clauses = <<>>
    THEN [m |-> m, original_clause_list |-> original_clause_list, panic |-> FALSE]
    ELSE IF get_clause_length(Head(resolved_clauses)) > max_clause_length
    THEN add_resolved_clauses(m, Tail(resolved_clauses), max_clause_length,
                              original_clause_list)
    ELSE add_resolved_clauses(
             [m EXCEPT !.clause_list = Append(@, Head(resolved_clauses)),
                       !.clause_count = @ + 1,
                       !.clause_references =
                           InsertLiterals(@, get_literal_list(Head(resolved_clauses)),
                                          Len(m.clause_list) + 1)],
             Tail(resolved_clauses), max_clause_length,
             IF original_clause_list # <<>>
             THEN Append(original_clause_list, Head(resolved_clauses))
             ELSE original_clause_list)

\* the last statement of pre_resolution
PreResolutionEnd(m, r, original_clause_list) ==
    IF r.panic
    THEN [m |-> m, original_clause_list |-> original_clause_list, panic |-> TRUE]
    ELSE add_resolved_clauses(m, r.resolved_clause_database,
                              config.resolution_config.max_clause_length,
                              original_clause_list)

\* pre_resolution: [m, original_clause_list, panic]; panic is the division by
\* the length of an empty quantifier list or an index outside clause_list
pre_resolution(m, original_clause_list) ==
    IF Len(m.quantifier_list) = 0
    THEN [m |-> m, original_clause_list |-> original_clause_list, panic |-> TRUE]
    ELSE PreResolutionEnd(m,
             ResolveIterations(m, 0, Range(m.clause_list), m.clause_list,
                 m.clause_references, <<>>,
                 Scaled(Len(m.clause_list), config.resolution_config.min_ratio)
                     \div Len(m.quantifier_list),
                 Scaled(Len(m.clause_list), config.resolution_config.max_ratio)),
             original_clause_list)

\* --------------------------------------------------------------- CDCLMatrix
NoAssignment == [value |-> 0, decision_level |-> -1, clause_responsible |-> 0]

is_decision(assignment) == assignment.clause_responsible = 0

Assigned(m, literal) == m.assignments[Abs(literal)].value # 0

\* apply_current_assignments that drops every literal, assigned or not
apply_current_assignments_dropping_all(m, clause) ==
    [clause EXCEPT !.e_literals = <<>>, !.a_literals = <<>>]

\* CDCLMatrix::apply_current_assignments
apply_current_assignments(m, clause) ==
    [clause EXCEPT !.e_literals = SelectSeq(@, LAMBDA l : ~Assigned(m, l)),
                   !.a_literals = SelectSeq(@, LAMBDA l : ~Assigned(m, l))]

\* add_clause that keeps no reference to the learned clause
add_clause_unreferenced(m, clause) ==
    LET new_clause == apply_current_assignments(m, clause)
        clause_index == Len(m.clause_list) + 1
    IN [m EXCEPT !.original_clause_list = Append(@, clause),
                 !.clause_list = Append(@, new_clause),
                 !.clause_references =
                     InsertLiterals(@, get_literal_list(new_clause), clause_index),
                 !.clause_count = @ + 1]

\* CDCLMatrix::add_clause
add_clause(m, clause) ==
    LET new_clause == apply_current_assignments(m, clause)
        clause_index == Len(m.clause_list) + 1
    IN [m EXCEPT !.original_clause_list = Append(@, clause),
                 !.clause_list = Append(@, new_clause),
                 !.learned_clause_refs = Append(@, clause_index),
                 !.clause_references =
                     InsertLiterals(@, get_literal_list(new_clause), clause_index),
                 !.clause_count = @ + 1]

\* CDCLMatrix::readd_learned_clauses over the references refs; indexing the
\* original clause list out of range panics
RECURSIVE ReaddLoop(_, _)
ReaddLoop(m, refs) ==
    IF refs = <<>> THEN [m |-> m, panic |-> FALSE]
    ELSE LET reference == Head(refs) IN
         IF reference > Len(m.clause_list)
         THEN IF reference > Len(m.original_clause_list)
              THEN [m |-> m, panic |-> TRUE]
              ELSE LET clause == apply_current_assignments(m, m.original_clause_list[reference])
                       clause_index == Len(m.clause_list) + 1
                   IN ReaddLoop([m EXCEPT
                         !.clause_list = Append(@, clause),
                         !.clause_references =
                             InsertLiterals(@, get_literal_list(clause), clause_index),
                         !.clause_count = @ + 1], Tail(refs))
         ELSE ReaddLoop(m, Tail(refs))

\* a restore that re-attaches nothing
readd_learned_clauses_skipped(m) == [m |-> m, panic |-> FALSE]

readd_learned_clauses(m) == ReaddLoop(m, m.learned_clause_refs)

\* a refresh that leaves the index as it is
refresh_clause_references_skipped(m) == m

\* CDCLMatrix::refresh_clause_references
refresh_clause_references(m) == [m EXCEPT !.clause_references = IndexOf(m.clause_list)]

\* the removal loop of reduce_clause_database, last reference of the half first
RECURSIVE ReduceLoop(_, _)
ReduceLoop(m, first_half) ==
    IF first_half = <<>> THEN [m |-> m, panic |-> FALSE]
    ELSE LET reference == first_half[Len(first_half)] IN
         IF reference > Len(m.original_clause_list) \/ reference > Len(m.clause_list)
         THEN [m |-> m, panic |-> TRUE]
         ELSE ReduceLoop([m EXCEPT
                  !.original_clause_list = RemoveAt(@, reference),
                  !.clause_list = RemoveAt(@, reference),
                  !.learned_clause_refs = Tail(@),
                  !.clause_count = @ - 1],
                SubSeq(first_half, 1, Len(first_half) - 1))

\* a reduction that deletes nothing
reduce_clause_database_skipped(m) == [m |-> m, panic |-> FALSE]

\* CDCLMatrix::reduce_clause_database
reduce_clause_database(m) ==
    LET num_of_learned_clauses == Len(m.learned_clause_refs)
        first_half == SubSeq(m.learned_clause_refs, 1, num_of_learned_clauses \div 2)
        r == ReduceLoop(m, first_half)
        refreshed == refresh_clause_references(r.m)
    IN [m |-> [refreshed EXCEPT !.learned_clause_refs =
                  AsSeq([i \in 1..Len(@) |-> @[i] - Len(first_half)])],
        panic |-> r.panic]

\* ----------------------------------------------------------- RestartData
RestartConstant == 100

RestartDataNew(constant) ==
    [restart_counter |-> 1, conflicts_until_restart |-> constant,
     constant |-> constant, current_conflicts |-> 0]

\* ceil(log2(n)) for n >= 1, and whether log2(n) is an integer
RECURSIVE CeilLog2(_)
CeilLog2(n) == IF n <= 1 THEN 0 ELSE 1 + CeilLog2((n + 1) \div 2)

RECURSIVE Pow2(_)
Pow2(k) == IF k = 0 THEN 1 ELSE 2 * Pow2(k - 1)

\* update_conflicts_until_restart that takes the index after a power of two
\* for the end of a block
RECURSIVE update_conflicts_until_restart_late(_, _)
update_conflicts_until_restart_late(constant, restart_count) ==
    LET k == CeilLog2(1 + restart_count)
    IN IF restart_count = Pow2(k - 1) \/ restart_count = 1
       THEN constant * Pow2(k - 1)
       ELSE update_conflicts_until_restart_late(constant, restart_count - (Pow2(k) \div 2) + 1)

\* RestartData::update_conflicts_until_restart: the new threshold (every
\* restart count the search reaches is an integer an f32 holds exactly)
RECURSIVE update_conflicts_until_restart(_, _)
update_conflicts_until_restart(constant, restart_count) ==
    LET k == CeilLog2(1 + restart_count)
    IN IF 1 + restart_count = Pow2(k)
       THEN constant * Pow2(k - 1)
       ELSE update_conflicts_until_restart(constant, restart_count - (Pow2(k) \div 2) + 1)

should_restart(m) ==
    m.restart_data.current_conflicts = m.restart_data.conflicts_until_restart

\* CDCLMatrix::new
CDCLMatrixNew ==
    LET core_data == create_structures(formula)
    IN [quantifier_list      |-> core_data.quantifier_list,
        clause_list          |-> core_data.clause_list,
        clause_count         |-> core_data.clause_count,
        clause_references    |-> core_data.clause_references,
        decision_level       |-> 0,
        conflict_clause      |-> <<>>,
        original_clause_list |-> core_data.clause_list,
        trail                |-> <<>>,
        assignments          |-> [v \in Vars |-> NoAssignment],
        learned_clause_refs  |-> <<>>,
        restart_data         |-> RestartDataNew(restart_constant)]

\* the loop that puts a new unit literal at the head of the queue
RECURSIVE CdclFalsifyLoop_prepending(_, _, _, _, _)
CdclFalsifyLoop_prepending(m, complement_unit_literal, idxs, queue, implied) ==
    IF idxs = <<>>
    THEN [m |-> m, queue |-> queue, implied |-> implied, returned |-> FALSE, panic |-> FALSE]
    ELSE LET Readded(m2, found_unit_clause) ==
                 IF is_empty(m2.clause_list[Head(idxs)])
                 THEN IF Head(idxs) > Len(m2.original_clause_list)
                      THEN [m |-> [m2 EXCEPT !.clause_count = -1], queue |-> queue,
                            implied |-> implied, returned |-> TRUE, panic |-> TRUE]
                      ELSE [m |-> [m2 EXCEPT !.clause_count = -1,
                                             !.conflict_clause =
                                                 <<m2.original_clause_list[Head(idxs)]>>],
                            queue |-> queue, implied |-> implied,
                            returned |-> TRUE, panic |-> FALSE]
                 ELSE IF found_unit_clause # 0 /\ ~Contains(queue, found_unit_clause)
                 THEN CdclFalsifyLoop_prepending(m2, complement_unit_literal, Tail(idxs),
                                      <<found_unit_clause>> \o queue,
                                      [implied EXCEPT ![found_unit_clause] = Head(idxs)])
                 ELSE CdclFalsifyLoop_prepending(m2, complement_unit_literal, Tail(idxs), queue,
                                      implied)
             Kept(m2) == Readded(m2, is_unit_clause(m2.clause_list[Head(idxs)]))
             Reduced(reduced, universal_literals) ==
                 IF contains_empty_clause(reduced)
                 THEN [m |-> reduced, queue |-> queue, implied |-> implied,
                       returned |-> TRUE, panic |-> FALSE]
                 ELSE Kept(readd_universal_literal(reduced, universal_literals, Head(idxs)))
             Detected(m1, universal_literals) ==
                 IF universal_literals # <<>>
                 THEN Reduced(remove_universal_literal(m1, universal_literals, Head(idxs)),
                              universal_literals)
                 ELSE Kept(m1)
             Removed(m1) ==
                 Detected(m1, IF config.universal_reduction
                              THEN detect_universal_literal(m1.clause_list[Head(idxs)])
                              ELSE <<>>)
         IN Removed(RemoveComplement(m, Head(idxs), complement_unit_literal))

\* ---------------------------------------------------- cdcl/unit_propagate.rs
\* the loop over the clauses holding the complement (CDCL variant);
\* implied is implied_clause_references (literal -> clause index, 0 = absent)
RECURSIVE CdclFalsifyLoop(_, _, _, _, _)
CdclFalsifyLoop(m, complement_unit_literal, idxs, queue, implied) ==
    IF idxs = <<>>
    THEN [m |-> m, queue |-> queue, implied |-> implied, returned |-> FALSE, panic |-> FALSE]
    ELSE LET Readded(m2, found_unit_clause) ==
                 IF is_empty(m2.clause_list[Head(idxs)])
                 THEN IF Head(idxs) > Len(m2.original_clause_list)
                      THEN [m |-> [m2 EXCEPT !.clause_count = -1], queue |-> queue,
                            implied |-> implied, returned |-> TRUE, panic |-> TRUE]
                      ELSE [m |-> [m2 EXCEPT !.clause_count = -1,
                                             !.conflict_clause =
                                                 <<m2.original_clause_list[Head(idxs)]>>],
                            queue |-> queue, implied |-> implied,
                            returned |-> TRUE, panic |-> FALSE]
                 ELSE IF found_unit_clause # 0 /\ ~Contains(queue, found_unit_clause)
                 THEN CdclFalsifyLoop(m2, complement_unit_literal, Tail(idxs),
                                      Append(queue, found_unit_clause),
                                      [implied EXCEPT ![found_unit_clause] = Head(idxs)])
                 ELSE CdclFalsifyLoop(m2, complement_unit_literal, Tail(idxs), queue,
                                      implied)
             Kept(m2) == Readded(m2, is_unit_clause(m2.clause_list[Head(idxs)]))
             Reduced(reduced, universal_literals) ==
                 IF contains_empty_clause(reduced)
                 THEN [m |-> reduced, queue |-> queue, implied |-> implied,
                       returned |-> TRUE, panic |-> FALSE]
                 ELSE Kept(readd_universal_literal(reduced, universal_literals, Head(idxs)))
             Detected(m1, universal_literals) ==
                 IF universal_literals # <<>>
                 THEN Reduced(remove_universal_literal(m1, universal_literals, Head(idxs)),
                              universal_literals)
                 ELSE Kept(m1)
             Removed(m1) ==
                 Detected(m1, IF config.universal_reduction
                              THEN detect_universal_literal(m1.clause_list[Head(idxs)])
                              ELSE <<>>)
         IN Removed(RemoveComplement(m, Head(idxs), complement_unit_literal))

\* a record that holds the complement of the dequeued literal
NewAssignment_complement(m, temp_unit_literal, implied) ==
    [value |-> -temp_unit_literal,
     decision_level |-> m.decision_level,
     clause_responsible |-> implied[temp_unit_literal]]

\* the record unit_propagate appends to the trail for a dequeued literal
NewAssignment(m, temp_unit_literal, implied) ==
    [value |-> temp_unit_literal,
     decision_level |-> m.decision_level,
     clause_responsible |-> implied[temp_unit_literal]]

NoImplied == [l \in Lits |-> 0]

\* the trail and the assignment store after a decision was recorded
RecordAssignment(m, new_assignment) ==
    [m EXCEPT !.trail = Append(@, new_assignment),
              !.assignments[Abs(new_assignment.value)] = new_assignment]

\* the loop of cdcl::unit_propagate: [m, panic, propagation_count], the last
\* the propagation count of the statistics (one increment per literal dequeued)
RECURSIVE CdclPropagateLoop(_, _, _, _, _)
CdclPropagateLoop(m, new_unit_literals, implied, decision, propagation_count) ==
    IF new_unit_literals = <<>>
    THEN [m |-> m, panic |-> FALSE, propagation_count |-> propagation_count]
    ELSE LET Return(m1, panic) ==
                 [m |-> m1, panic |-> panic, propagation_count |-> propagation_count + 1]
             Falsified(f) ==
                 IF f.returned THEN Return(f.m, f.panic)
                 ELSE CdclPropagateLoop(f.m, f.queue, f.implied, decision,
                                        propagation_count + 1)
             Satisfied(s) ==
                 IF s.returned THEN Return(s.m, FALSE)
                 ELSE Falsified(CdclFalsifyLoop(s.m, -Head(new_unit_literals),
                                    s.m.clause_references[-Head(new_unit_literals)],
                                    Tail(new_unit_literals), implied))
             Unlisted(m1, q) ==
                 IF q.q_type = "A"
                 THEN Return([m1 EXCEPT !.clause_count = -1], FALSE)
                 ELSE Satisfied(SatisfyLoop(m1, m1.clause_references[Head(new_unit_literals)]))
             Found(m0, q) == Unlisted(RemoveQuantifier(m0, q), q)
             Recorded(m0) ==
                 Found(m0, get_quantifier_type(m0.quantifier_list, Head(new_unit_literals)))
         IN Recorded(IF decision
                     THEN RecordAssignment(m, NewAssignment(m, Head(new_unit_literals),
                                                            implied))
                     ELSE m)

\* cdcl::unit_propagate: [m, panic, propagation_count]
cdcl_unit_propagate(m, unit_literal, decision) ==
    CdclPropagateLoop(m, unit_literal, NoImplied, decision, 0)

\* ------------------------------------------------------- cdcl/preprocess.rs
\* the removal loop of cdcl::simplify_constraints on learned_clause_refs:
\* references are the removed indices, visited last first
RECURSIVE AdjustLearnedRefs(_, _)
AdjustLearnedRefs(learned_clause_refs, references) ==
    IF references = <<>> THEN learned_clause_refs
    ELSE LET reference == references[Len(references)]
             kept == Retain(learned_clause_refs, reference)
         IN AdjustLearnedRefs(
               AsSeq([i \in 1..Len(kept) |->
                        IF kept[i] > reference THEN kept[i] - 1 ELSE kept[i]]),
               SubSeq(references, 1, Len(references) - 1))

cdcl_simplify_constraints(m) ==
    LET remove_clause_references ==
            SelectSeq(AsSeq([i \in 1..Len(m.clause_list) |-> i]),
                      LAMBDA i : m.clause_list[i].is_removed)
        clause_list == SelectSeq(m.clause_list, LAMBDA c : ~c.is_removed)
    IN [m EXCEPT !.clause_list = clause_list,
                 !.learned_clause_refs = AdjustLearnedRefs(@, remove_clause_references),
                 !.clause_references = IndexOf(clause_list),
                 !.restart_data.current_conflicts = 0,
                 !.original_clause_list = clause_list]

\* --------------------------------------------------- cdcl/conflict_analysis.rs
\* every lookup "assignments.get(..).expect(..)" panics on a variable without
\* an assignment; the operators below are used where all literals have one
AllAssigned(m, literals) == \A i \in 1..Len(literals) : Assigned(m, literals[i])

LevelOf(m, literal) == m.assignments[Abs(literal)].decision_level

\* get_highest_decision_level: the first existential literal of the list at
\* the greatest decision level, [literal, level]
RECURSIVE HighestFrom(_, _, _, _)
HighestFrom(m, literals, highest_decision_literal, highest_decision_level) ==
    IF literals = <<>>
    THEN [literal |-> highest_decision_literal, level |-> highest_decision_level]
    ELSE LET literal == Head(literals) IN
         IF QType(Abs(literal)) = "E" /\ highest_decision_level < LevelOf(m, literal)
         THEN HighestFrom(m, Tail(literals), literal, LevelOf(m, literal))
         ELSE HighestFrom(m, Tail(literals), highest_decision_literal, highest_decision_level)

get_highest_decision_level(m, literals) == HighestFrom(m, literals, -1, -1)

\* stopping constraint 1 taken for met whatever the levels
contains_one_highest_decision_literal_unchecked(m, literals) ==
    LET h == get_highest_decision_level(m, literals)
    IN [literal |-> h.literal, level |-> h.level, met |-> TRUE]

\* stopping constraint 1: [literal, level, met]
contains_one_highest_decision_literal(m, literals) ==
    LET h == get_highest_decision_level(m, literals)
        two_highest_decision_literals ==
            \E i \in 1..Len(literals) :
                /\ QType(Abs(literals[i])) = "E"
                /\ LevelOf(m, literals[i]) = h.level
                /\ h.literal # literals[i]
    IN [literal |-> h.literal, level |-> h.level, met |-> ~two_highest_decision_literals]

\* stopping constraint 2, scanning the trail from its end: [met, panic]
RECURSIVE HighestDecisionFrom(_, _, _)
HighestDecisionFrom(m, i, highest_decision_level) ==
    IF i = 0 THEN [met |-> FALSE, panic |-> TRUE]
    ELSE LET assignment == m.trail[i] IN
         IF assignment.decision_level = highest_decision_level /\ is_decision(assignment)
         THEN [met |-> QType(Abs(assignment.value)) = "E", panic |-> FALSE]
         ELSE IF assignment.decision_level < highest_decision_level
         THEN [met |-> FALSE, panic |-> FALSE]
         ELSE HighestDecisionFrom(m, i - 1, highest_decision_level)

contains_highest_decision_level_decision(m, highest_decision_level) ==
    HighestDecisionFrom(m, Len(m.trail), highest_decision_level)

\* stopping constraint 3
all_previous_universals_assigned_correctly(m, literals, highest_decision_literal) ==
    LET hdl_quantification_level == QLevel(Abs(highest_decision_literal))
    IN \A i \in 1..Len(literals) :
          (QType(Abs(literals[i])) = "A" /\ QLevel(Abs(literals[i])) < hdl_quantification_level)
              => m.assignments[Abs(literals[i])].value = -literals[i]

\* calculate_backtrack_level without its last edge case
calculate_backtrack_level_unraised(m, literals, highest_decision_level) ==
    LET others == {LevelOf(m, literals[i]) : i \in 1..Len(literals)} \ {highest_decision_level}
    IN IF others = {} THEN highest_decision_level - 1
       ELSE CHOOSE x \in others : \A y \in others : y <= x

calculate_backtrack_level(m, literals, highest_decision_level) ==
    LET others == {LevelOf(m, literals[i]) : i \in 1..Len(literals)} \ {highest_decision_level}
        level0 == IF others = {} THEN -1
                  ELSE CHOOSE x \in others : \A y \in others : y <= x
        level1 == IF level0 = -1 THEN highest_decision_level - 1 ELSE level0
    IN IF Len(literals) > 1 /\ level1 = 0 THEN 1 ELSE level1

\* check_unsatisfiability_criteria that looks at the quantifiers alone
check_unsatisfiability_criteria_only_universals(m, literals) ==
    \A i \in 1..Len(literals) : QType(Abs(literals[i])) # "E"

check_unsatisfiability_criteria(m, literals) ==
    LET only_universals == \A i \in 1..Len(literals) : QType(Abs(literals[i])) # "E"
        existentials_at_level_0 ==
            \A i \in 1..Len(literals) :
                QType(Abs(literals[i])) = "E" => ~(LevelOf(m, literals[i]) > 0)
    IN ~(~only_universals /\ ~existentials_at_level_0)

\* the clause and level analyse_conflict returns once its loop is left; steps
\* are the resolutions it made (the popped record, the working clause before,
\* the original form of the reason clause, the resolvent), exhausted whether
\* the loop was left because the copy of the trail was empty
AnalysisResult(m, current_literals, backtrack_level, steps, exhausted) ==
    [clause |-> convert_literals_to_clause(current_literals),
     backtrack_level |-> IF Len(current_literals) = 1 THEN 0 ELSE backtrack_level,
     m |-> m, panic |-> FALSE, steps |-> steps, exhausted |-> exhausted]

AnalysisPanic(m, steps) ==
    [clause |-> new_empty_clause, backtrack_level |-> -1, m |-> m, panic |-> TRUE,
     steps |-> steps, exhausted |-> FALSE]

\* the loop of analyse_conflict over the copy of the trail
RECURSIVE AnalyseLoop(_, _, _, _)
AnalyseLoop(m, trail, current_literals, steps) ==
    IF trail = <<>>
    THEN IF ~AllAssigned(m, current_literals) THEN AnalysisPanic(m, steps)
         ELSE AnalysisResult(m, current_literals,
                 calculate_backtrack_level(m, current_literals,
                     contains_one_highest_decision_literal(m, current_literals).level),
                 steps, TRUE)
    ELSE LET assignment == trail[Len(trail)]
             rest == SubSeq(trail, 1, Len(trail) - 1)
         IN IF /\ ~is_decision(assignment)
               /\ QType(Abs(assignment.value)) = "E"
               /\ (Contains(current_literals, assignment.value)
                     \/ Contains(current_literals, -assignment.value))
            THEN IF assignment.clause_responsible > Len(m.original_clause_list)
                 THEN AnalysisPanic(m, steps)
                 ELSE
                 LET clause_responsible ==
                         m.original_clause_list[assignment.clause_responsible]
                     Two(resolved_literals, one, two, resolved) ==
                         IF two.panic THEN AnalysisPanic(m, resolved)
                         ELSE IF ~two.met
                         THEN AnalyseLoop(m, rest, resolved_literals, resolved)
                         ELSE IF ~all_previous_universals_assigned_correctly(
                                     m, resolved_literals, one.literal)
                         THEN AnalyseLoop(m, rest, resolved_literals, resolved)
                         ELSE AnalysisResult(m, resolved_literals,
                                  calculate_backtrack_level(m, resolved_literals, one.level),
                                  resolved, FALSE)
                     One(resolved_literals, one, resolved) ==
                         IF ~one.met THEN AnalyseLoop(m, rest, resolved_literals, resolved)
                         ELSE Two(resolved_literals, one,
                                  contains_highest_decision_level_decision(m, one.level),
                                  resolved)
                     Resolved(resolution, resolved) ==
                         IF ~resolution.valid THEN AnalysisPanic(m, steps)
                         ELSE IF \E i \in 1..Len(resolution.literals) :
                                    QType(Abs(resolution.literals[i])) = "E"
                                    /\ ~Assigned(m, resolution.literals[i])
                         THEN AnalysisPanic(m, resolved)
                         ELSE IF check_unsatisfiability_criteria(m, resolution.literals)
                         THEN [clause |-> new_empty_clause, backtrack_level |-> -1,
                               m |-> m, panic |-> FALSE, steps |-> resolved,
                               exhausted |-> FALSE]
                         ELSE IF ~AllAssigned(m, resolution.literals)
                         THEN AnalysisPanic(m, resolved)
                         ELSE One(resolution.literals,
                                  contains_one_highest_decision_literal(m, resolution.literals),
                                  resolved)
                     Resolving(resolution) ==
                         Resolved(resolution,
                                  Append(steps, [assignment |-> assignment,
                                                 working |-> current_literals,
                                                 reason |-> get_literal_list(clause_responsible),
                                                 resolvent |-> resolution.literals]))
                 IN Resolving(resolve(current_literals,
                                      get_literal_list(clause_responsible),
                                      assignment.value))
            ELSE AnalyseLoop(m, rest, current_literals, steps)

\* analyse_conflict: [clause, backtrack_level, m, panic] and the resolutions made
analyse_conflict(m) ==
    IF m.conflict_clause = <<>>
    THEN [clause |-> new_empty_clause, backtrack_level |-> m.decision_level,
          m |-> m, panic |-> FALSE, steps |-> <<>>, exhausted |-> FALSE]
    ELSE LET conflict == m.conflict_clause[1]
             reset == [m EXCEPT !.conflict_clause = <<>>]
         IN AnalyseLoop(reset, reset.trail, get_literal_list(conflict), <<>>)

\* ------------------------------------------------------------ the inputs
\* the clause lines of an instance: non-empty, no variable twice
ClauseLines ==
    {SetToSeq(c) : c \in {d \in SUBSET {l \in (-NumVars)..NumVars : l # 0} :
                            /\ d # {}
                            /\ Cardinality(d) <= MaxClauseLen
                            /\ \A l \in d : -l \notin d}}

Formulas == UNION {[1..n -> ClauseLines] : n \in 1..MaxClauses}

\* usize::MAX, the max_clause_length of the configurations of the tests
UsizeMax == 2147483647

\* the ResolutionConfig of the configurations of the tests
TestResolutionConfig ==
    [min_ratio |-> [num |-> 1, den |-> 4],
     max_ratio |-> [num |-> 1, den |-> 2],
     max_clause_length |-> UsizeMax,
     repeat_above |-> 3,
     iterations |-> 1]

ResolutionConfigs == {TestResolutionConfig}

Configs ==
    [literal_selection : {"Ordered", "VariableStateSum"},
     pre_resolution : BOOLEAN,
     resolution_config : ResolutionConfigs,
     pre_process : BOOLEAN,
     universal_reduction : BOOLEAN,
     pure_literal_deletion : BOOLEAN,
     restarts : BOOLEAN]

NoReturn == [learned_clause |-> new_empty_clause, backtrack_level |-> -1, result |-> "none"]

Returned(result) == [NoReturn EXCEPT !.result = result]

\* Matrix::new
MatrixNew == create_structures(formula)

\* the matrix before run_instance has built it
NoMatrix == [quantifier_list |-> <<>>, clause_list |-> <<>>, clause_count |-> 0,
             clause_references |-> <<>>]

\* no function is called on its own in a run of the pipelines
NoOperation == [name |-> "none"]

\* the state of a process before run_instance of the DPLL pipeline
Start ==
    /\ operation = NoOperation
    /\ solver = "DPLL"
    /\ pc = "new"
    /\ matrix = NoMatrix
    /\ stack = <<>>
    /\ arg = 0
    /\ ret = NoReturn
    /\ expired = FALSE
    /\ dpll_result = "none"
    /\ cdcl_result = "none"
    /\ pp_cont = "start"

Init ==
    /\ \E kinds \in [1..NumVars -> {"E", "A"}] :
          /\ variable_quantification = ParsedVariableQuantification(kinds)
          /\ quantification_order = ParsedQuantificationOrder(kinds)
    /\ formula \in Formulas
    /\ config \in {c \in Configs : ~c.restarts /\ ~c.pre_resolution}
    /\ restart_constant = RestartConstant
    /\ Start


\* ---------------------------------------------------- instances given in full
\* the restart constant RestartData::new is given in the runs below that are
\* to reach a restart within few conflicts
ScaledRestartConstant == 1

\* QDIMACS instances: kinds[v] is the quantifier of variable v, lines the clauses
Cases ==
    << [kinds |-> <<"E", "E">>, lines |-> << <<1, 2>>, <<-1, -2>> >>],
       [kinds |-> <<"E", "E">>, lines |-> << <<1, 2>>, <<1, -2>>, <<-1, 2>>, <<-1, -2>> >>],
       [kinds |-> <<"A", "E">>, lines |-> << <<1, 2>>, <<-1, 2>> >>],
       [kinds |-> <<"E", "A">>, lines |-> << <<1, 2>>, <<1, -2>> >>],
       [kinds |-> <<"A", "E">>, lines |-> << <<2>> >>],
       [kinds |-> <<"A">>, lines |-> << <<1>>, <<-1>> >>],
       [kinds |-> <<"E", "E", "A", "E">>,
        lines |-> << <<1, 2, 3>>, <<-1, -3, 4>>, <<-2, -4>> >>],
       [kinds |-> <<"A", "E", "E", "E">>,
        lines |-> << <<1, 2>>, <<1, -2>>, <<-2, -3, 4>>, <<-2, -3, -4>> >>],
       [kinds |-> <<"E", "A", "E">>,
        lines |-> << <<-1, 2>>, <<1, 3>>, <<1, -3>> >>],
       [kinds |-> <<"A", "A", "E">>, lines |-> << <<-3>>, <<-2, -1, 3>> >>],
       [kinds |-> <<"E", "E", "E">>, lines |-> << <<-1, 2>>, <<-1, 3>>, <<-2, -3>> >>],
       [kinds |-> <<"A", "E", "E", "A">>,
        lines |-> << <<-2, 4>>, <<-1, 2, 3>>, <<2, -3>> >>] >>

InitCases ==
    /\ \E i \in 1..Len(Cases) :
          /\ variable_quantification = ParsedVariableQuantification(Cases[i].kinds)
          /\ quantification_order = ParsedQuantificationOrder(Cases[i].kinds)
          /\ formula = Cases[i].lines
    /\ config \in {c \in Configs : ~c.restarts}
    /\ restart_constant \in {RestartConstant, ScaledRestartConstant}
    /\ Start

instance == <<variable_quantification, quantification_order, formula>>

static == <<instance, config, restart_constant, operation>>

\* ------------------------------------------------------------- the deadline
\* timer.elapsed().as_secs() > 30 becomes true at some moment and stays true
\* (the timer is read only at the head of the preprocessing loop and of a
\* driver call, so it is enough to let it pass right before such a read)
DeadlinePasses ==
    /\ ~expired
    /\ pc \in {"pp_unit", "call"}
    /\ expired' = TRUE
    /\ UNCHANGED <<static, solver, pc, matrix, stack, arg, ret, dpll_result, cdcl_result, pp_cont>>

\* ------------------------------------------------------------ run_instance
\* run_instance builds the matrix and starts preprocessing or the search
RunInstance ==
    /\ pc = "new"
    /\ matrix' = IF solver = "DPLL" THEN MatrixNew ELSE CDCLMatrixNew
    /\ pc' = IF config.pre_process THEN "pp_unit" ELSE "pre_resolution"
    /\ UNCHANGED <<static, solver, stack, arg, ret, expired, dpll_result, cdcl_result, pp_cont>>

\* --------------------------------------------------- preprocess, step by step
\* the unit_propagate of the running solver, called by preprocess
UnitPropagateOutcomes(m, unit_literals) ==
    IF solver = "DPLL"
    THEN {[m |-> x, panic |-> FALSE] : x \in dpll_unit_propagate(m, unit_literals)}
    ELSE {cdcl_unit_propagate(m, unit_literals, FALSE)}

\* loop head: the deadline test, get_unit_literals and unit_propagate
PreprocessUnit ==
    /\ pc = "pp_unit"
    /\ IF expired
       THEN /\ pc' = "pp_return"
            /\ matrix' = matrix
       ELSE LET unit_literals == get_unit_literals(matrix.clause_list)
            IN \E r \in (IF unit_literals # <<>>
                         THEN UnitPropagateOutcomes(matrix, unit_literals)
                         ELSE {[m |-> matrix, panic |-> FALSE]}) :
                  /\ matrix' = r.m
                  /\ pc' = IF r.panic THEN "abort"
                           ELSE IF check_solved(r.m) THEN "pp_simplify" ELSE "pp_pure"
    /\ UNCHANGED <<static, solver, stack, arg, ret, expired, dpll_result, cdcl_result, pp_cont>>

\* the pure-literal step of the loop
PreprocessPure ==
    /\ pc = "pp_pure"
    /\ LET pure_literals == IF config.pure_literal_deletion
                            THEN get_pure_literals(matrix.clause_references)
                            ELSE {}
       IN \E order \in Perms(pure_literals) :
             LET m1 == IF pure_literals # {}
                       THEN remove_pure_literals(matrix, order).m
                       ELSE matrix
             IN /\ matrix' = m1
                /\ pc' = IF config.pure_literal_deletion /\ check_solved(m1)
                         THEN "pp_simplify" ELSE "pp_reduce"
    /\ UNCHANGED <<static, solver, stack, arg, ret, expired, dpll_result, cdcl_result, pp_cont>>

\* the universal-reduction sweep and the test for the fixed point
PreprocessReduce ==
    /\ pc = "pp_reduce"
    /\ LET m1 == IF config.universal_reduction
                 THEN ApplyReductions(matrix,
                          get_universal_literals_for_reduction(matrix.clause_list))
                 ELSE matrix
       IN /\ matrix' = m1
          /\ pc' = IF config.universal_reduction /\ check_solved(m1) THEN "pp_simplify"
                   ELSE IF PreprocessFinished(m1) THEN "pp_simplify"
                   ELSE "pp_unit"
    /\ UNCHANGED <<static, solver, stack, arg, ret, expired, dpll_result, cdcl_result, pp_cont>>

SimplifyConstraints(m) ==
    IF solver = "DPLL" THEN dpll_simplify_constraints(m) ELSE cdcl_simplify_constraints(m)

\* simplify_constraints, the last statement of preprocess
PreprocessSimplify ==
    /\ pc = "pp_simplify"
    /\ matrix' = SimplifyConstraints(matrix)
    /\ pc' = "pp_return"
    /\ UNCHANGED <<static, solver, stack, arg, ret, expired, dpll_result, cdcl_result, pp_cont>>

\* preprocess returns to run_instance
PreprocessReturn ==
    /\ pc = "pp_return"
    /\ pp_cont = "start"
    /\ pc' = "pre_resolution"
    /\ UNCHANGED <<static, solver, matrix, stack, arg, ret, expired, dpll_result, cdcl_result, pp_cont>>

\* run_instance runs pre_resolution if it is enabled and calls the search
\* driver; the DPLL pipeline passes an empty original_clause_list
PreResolution ==
    /\ pc = "pre_resolution"
    /\ IF ~config.pre_resolution
       THEN /\ pc' = "call"
            /\ matrix' = matrix
       ELSE \E r \in {pre_resolution(matrix, IF solver = "DPLL" THEN <<>>
                                             ELSE matrix.original_clause_list)} :
               /\ pc' = IF r.panic THEN "abort" ELSE "call"
               /\ matrix' = IF solver = "DPLL" THEN r.m
                            ELSE [r.m EXCEPT !.original_clause_list = r.original_clause_list]
    /\ UNCHANGED <<static, solver, stack, arg, ret, expired, dpll_result, cdcl_result, pp_cont>>

\* ------------------------------------------------------------- dpll/dpll.rs
\* one call of dpll up to its first recursive call or its return
DpllCall ==
    /\ pc = "call"
    /\ solver = "DPLL"
    /\ IF expired
       THEN /\ ret' = Returned("Timeout")
            /\ pc' = "ret"
            /\ UNCHANGED <<matrix, stack, arg>>
       ELSE \E new_matrix \in (IF arg # 0 THEN dpll_unit_propagate(matrix, <<arg>>)
                               ELSE {matrix}) :
              IF contains_empty_set(new_matrix)
              THEN /\ ret' = Returned("SAT")
                   /\ pc' = "ret"
                   /\ UNCHANGED <<matrix, stack, arg>>
              ELSE IF contains_empty_clause(new_matrix)
              THEN /\ ret' = Returned("UNSAT")
                   /\ pc' = "ret"
                   /\ UNCHANGED <<matrix, stack, arg>>
              ELSE \E sel \in {SelectLiteral(new_matrix)} :
                      IF sel.panic
                      THEN /\ ret' = Returned("Abort")
                           /\ pc' = "ret"
                           /\ UNCHANGED <<matrix, stack, arg>>
                      ELSE /\ stack' = Append(stack, [new_matrix |-> sel.m,
                                                      literal |-> sel.literal,
                                                      q_type |-> sel.q_type,
                                                      branch |-> 1])
                           /\ matrix' = sel.m
                           /\ arg' = sel.literal
                           /\ pc' = "call"
                           /\ ret' = ret
    /\ UNCHANGED <<static, solver, expired, dpll_result, cdcl_result, pp_cont>>

explores_second_branch_unless_sat(result, quantifier_type) ==
    \/ (result = "SAT" /\ quantifier_type = "A")
    \/ (result # "SAT" /\ quantifier_type = "E")

\* the arm of the match of dpll that calls dpll on the complement
explores_second_branch(result, quantifier_type) ==
    \/ (result = "SAT" /\ quantifier_type = "A")
    \/ (result = "UNSAT" /\ quantifier_type = "E")

\* a call of dpll has returned into the frame that made it
DpllReturn ==
    /\ pc = "ret"
    /\ solver = "DPLL"
    /\ stack # <<>>
    /\ LET frame == stack[Len(stack)]
           popped == SubSeq(stack, 1, Len(stack) - 1)
       IN IF frame.branch = 1 /\ explores_second_branch(ret.result, frame.q_type)
          THEN /\ stack' = Append(popped, [frame EXCEPT !.branch = 2])
               /\ matrix' = frame.new_matrix
               /\ arg' = -frame.literal
               /\ pc' = "call"
               /\ ret' = NoReturn
          ELSE /\ stack' = popped
               /\ UNCHANGED <<matrix, arg, pc, ret>>
    /\ UNCHANGED <<static, solver, expired, dpll_result, cdcl_result, pp_cont>>

\* the outermost call has returned to run_instance
DpllDone ==
    /\ pc = "ret"
    /\ solver = "DPLL"
    /\ stack = <<>>
    /\ dpll_result' = ret.result
    /\ pc' = "done"
    /\ UNCHANGED <<static, solver, matrix, stack, arg, ret, expired, cdcl_result, pp_cont>>

\* --------------------------------------------------------------- cdcl/cdcl.rs
satisfiable == [learned_clause |-> new_empty_clause, backtrack_level |-> -1, result |-> "SAT"]

unsatisfiable == [learned_clause |-> new_empty_clause, backtrack_level |-> -1, result |-> "UNSAT"]

timeout == [learned_clause |-> new_empty_clause, backtrack_level |-> -1, result |-> "Timeout"]

\* perform_restart: the matrix afterwards (the value returned is RestartReturn)
\* perform_restart that leaves current_conflicts as it is
perform_restart_keeping_conflicts(m) ==
    LET restart_counter == m.restart_data.restart_counter + 1
    IN [m EXCEPT !.restart_data.restart_counter = restart_counter,
                 !.restart_data.conflicts_until_restart =
                     update_conflicts_until_restart(m.restart_data.constant, restart_counter),
                 !.conflict_clause = <<>>]

perform_restart(m) ==
    LET restart_counter == m.restart_data.restart_counter + 1
    IN [m EXCEPT !.restart_data.restart_counter = restart_counter,
                 !.restart_data.conflicts_until_restart =
                     update_conflicts_until_restart(m.restart_data.constant, restart_counter),
                 !.restart_data.current_conflicts = 0,
                 !.conflict_clause = <<>>]

RestartReturn == [learned_clause |-> new_empty_clause, backtrack_level |-> -1, result |-> "Restart"]

cache_necessary_structures(m) ==
    [clause_list |-> m.clause_list, clause_count |-> m.clause_count,
     clause_references |-> m.clause_references, quantifier_list |-> m.quantifier_list,
     trail |-> m.trail, assignments |-> m.assignments, decision_level |-> m.decision_level]

\* restore_necessary_structures that leaves the trail as it is
restore_necessary_structures_keeping_trail(m, cached_structures) ==
    readd_learned_clauses(
        [m EXCEPT !.clause_list = cached_structures.clause_list,
                  !.clause_count = cached_structures.clause_count,
                  !.clause_references = cached_structures.clause_references,
                  !.quantifier_list = cached_structures.quantifier_list,
                  !.assignments = cached_structures.assignments,
                  !.decision_level = cached_structures.decision_level])

\* restore_necessary_structures: [m, panic]
restore_necessary_structures(m, cached_structures) ==
    readd_learned_clauses(
        [m EXCEPT !.clause_list = cached_structures.clause_list,
                  !.clause_count = cached_structures.clause_count,
                  !.clause_references = cached_structures.clause_references,
                  !.quantifier_list = cached_structures.quantifier_list,
                  !.trail = cached_structures.trail,
                  !.assignments = cached_structures.assignments,
                  !.decision_level = cached_structures.decision_level])

\* run_instance of the CDCL pipeline on the instance the DPLL pipeline decided
StartCDCL ==
    /\ pc = "done"
    /\ solver = "DPLL"
    /\ dpll_result # "Timeout"
    /\ solver' = "CDCL"
    /\ \E restarts \in BOOLEAN : config' = [config EXCEPT !.restarts = restarts]
    /\ pc' = "new"
    /\ matrix' = NoMatrix
    /\ ret' = NoReturn
    /\ arg' = 0
    /\ expired' = FALSE
    /\ UNCHANGED <<instance, restart_constant, operation, stack, dpll_result, cdcl_result,
                   pp_cont>>

\* one pass of the loop of cdcl from its head to the recursive call or a return
\* a search that keeps learning clauses runs until the deadline passes: past
\* MaxLearned learned clauses or MaxRestarts restarts only the deadline is left
WithinSearchBounds ==
    /\ Len(matrix.learned_clause_refs) <= MaxLearned
    /\ matrix.restart_data.restart_counter <= MaxRestarts

CdclCall ==
    /\ pc = "call"
    /\ solver = "CDCL"
    /\ expired \/ WithinSearchBounds
    /\ IF expired
       THEN /\ ret' = timeout
            /\ pc' = "ret"
            /\ UNCHANGED <<matrix, stack, arg>>
       ELSE \E up \in {IF arg # 0 THEN cdcl_unit_propagate(matrix, <<arg>>, TRUE)
                       ELSE [m |-> matrix, panic |-> FALSE]} :
               IF up.panic
               THEN /\ pc' = "abort"
                    /\ matrix' = up.m
                    /\ UNCHANGED <<stack, arg, ret>>
               ELSE IF contains_empty_set(up.m)
               THEN /\ ret' = satisfiable
                    /\ pc' = "ret"
                    /\ matrix' = up.m
                    /\ UNCHANGED <<stack, arg>>
               ELSE IF contains_empty_clause(up.m)
               THEN IF config.restarts /\ should_restart(up.m)
                    THEN /\ matrix' = perform_restart(up.m)
                         /\ ret' = RestartReturn
                         /\ pc' = "ret"
                         /\ UNCHANGED <<stack, arg>>
                    ELSE \E a \in {analyse_conflict(up.m)} :
                            /\ matrix' =
                                 IF ~a.panic /\ ~is_empty(a.clause) /\ config.restarts
                                 THEN [a.m EXCEPT !.restart_data.current_conflicts = @ + 1]
                                 ELSE a.m
                            /\ ret' = [learned_clause |-> a.clause,
                                       backtrack_level |-> a.backtrack_level,
                                       result |-> "UNSAT"]
                            /\ pc' = IF a.panic THEN "abort" ELSE "ret"
                            /\ UNCHANGED <<stack, arg>>
               ELSE \E sel \in {SelectLiteral(up.m)} :
                    \E m2 \in {[sel.m EXCEPT !.decision_level = @ + 1]} :
                       IF sel.panic
                       THEN /\ pc' = "abort"
                            /\ matrix' = up.m
                            /\ UNCHANGED <<stack, arg, ret>>
                       ELSE /\ stack' = Append(stack,
                                   [decision_branch |-> arg,
                                    pre_selection_quantifier_list |-> up.m.quantifier_list,
                                    literal |-> sel.literal,
                                    quantifier_type |-> sel.q_type,
                                    stored_structures |-> cache_necessary_structures(m2),
                                    tail |-> FALSE])
                            /\ matrix' = m2
                            /\ arg' = sel.literal
                            /\ pc' = "call"
                            /\ ret' = NoReturn
    /\ UNCHANGED <<static, solver, expired, dpll_result, cdcl_result, pp_cont>>

\* the statements of cdcl after its recursive call has returned: the restore
\* and the match on (result, quantifier_type)
CdclReturn ==
    /\ pc = "ret"
    /\ solver = "CDCL"
    /\ stack # <<>>
    /\ \E restored \in {restore_necessary_structures(matrix,
                                                      stack[Len(stack)].stored_structures)} :
       LET frame == stack[Len(stack)]
           popped == SubSeq(stack, 1, Len(stack) - 1)
           m == restored.m
           lowered == [m EXCEPT !.decision_level = @ - 1]
           relisted == [lowered EXCEPT !.quantifier_list = frame.pre_selection_quantifier_list]
           Return(value) == /\ stack' = popped
                            /\ ret' = value
                            /\ matrix' = m
                            /\ UNCHANGED <<arg, pc, pp_cont>>
           TailCall == /\ stack' = Append(popped, [frame EXCEPT !.tail = TRUE])
                       /\ matrix' = lowered
                       /\ arg' = -frame.literal
                       /\ pc' = "call"
                       /\ ret' = NoReturn
                       /\ UNCHANGED pp_cont
           Continue(m1) == /\ stack' = popped
                           /\ matrix' = m1
                           /\ arg' = frame.decision_branch
                           /\ pc' = "call"
                           /\ ret' = NoReturn
                           /\ UNCHANGED pp_cont
           Panic(m1) == /\ pc' = "abort"
                        /\ matrix' = m1
                        /\ UNCHANGED <<stack, arg, ret, pp_cont>>
       IN IF frame.tail
          THEN /\ stack' = popped
               /\ UNCHANGED <<matrix, arg, pc, ret, pp_cont>>
          ELSE IF restored.panic THEN Panic(m)
          ELSE IF ret.result = "UNSAT"
          THEN IF ret.backtrack_level = m.decision_level
               THEN IF is_empty(ret.learned_clause)
                    THEN IF frame.quantifier_type = "A"
                         THEN Return([ret EXCEPT !.backtrack_level = @ - 1])
                         ELSE TailCall
                    ELSE Continue(add_clause(relisted, ret.learned_clause))
               ELSE IF is_unit_clause(ret.learned_clause) # 0 /\ m.decision_level = 1
               THEN /\ matrix' = [add_clause(m, ret.learned_clause) EXCEPT
                                     !.quantifier_list = frame.pre_selection_quantifier_list,
                                     !.decision_level = @ - 1]
                    /\ pc' = "pp_unit"
                    /\ pp_cont' = "unit"
                    /\ UNCHANGED <<stack, arg, ret>>
               ELSE Return(ret)
          ELSE IF ret.result = "SAT"
          THEN IF frame.quantifier_type = "A" THEN TailCall ELSE Return(ret)
          ELSE IF ret.result = "Restart"
          THEN IF m.decision_level # 1 THEN Return(ret)
               ELSE \E reduced \in {reduce_clause_database(m)} :
                       IF reduced.panic THEN Panic(reduced.m)
                       ELSE Continue([reduced.m EXCEPT
                               !.quantifier_list = frame.pre_selection_quantifier_list,
                               !.decision_level = @ - 1])
          ELSE Return(ret)
    /\ UNCHANGED <<static, solver, expired, dpll_result, cdcl_result>>

\* the preprocess call made after a unit clause was learned has returned
CdclAfterPreprocess ==
    /\ pc = "pp_return"
    /\ pp_cont = "unit"
    /\ LET frame == stack[Len(stack)]
       IN /\ stack' = SubSeq(stack, 1, Len(stack) - 1)
          /\ IF contains_empty_set(matrix)
             THEN ret' = satisfiable /\ pc' = "ret" /\ arg' = arg
             ELSE IF contains_empty_clause(matrix)
             THEN ret' = unsatisfiable /\ pc' = "ret" /\ arg' = arg
             ELSE ret' = NoReturn /\ pc' = "call" /\ arg' = frame.decision_branch
    /\ pp_cont' = "start"
    /\ UNCHANGED <<static, solver, matrix, expired, dpll_result, cdcl_result>>

\* the outermost call of cdcl has returned to run_instance
CdclDone ==
    /\ pc = "ret"
    /\ solver = "CDCL"
    /\ stack = <<>>
    /\ cdcl_result' = ret.result
    /\ pc' = "done"
    /\ UNCHANGED <<static, solver, matrix, stack, arg, ret, expired, dpll_result, pp_cont>>

\* a panic (failed expect/unwrap, index out of range) ends the process
InstanceAborts ==
    /\ pc = "abort"
    /\ IF solver = "DPLL"
       THEN dpll_result' = "Abort" /\ cdcl_result' = cdcl_result
       ELSE cdcl_result' = "Abort" /\ dpll_result' = dpll_result
    /\ pc' = "done"
    /\ stack' = <<>>
    /\ pp_cont' = "start"
    /\ UNCHANGED <<static, solver, matrix, arg, ret, expired>>

Next ==
    \/ RunInstance
    \/ DeadlinePasses
    \/ PreprocessUnit
    \/ PreprocessPure
    \/ PreprocessReduce
    \/ PreprocessSimplify
    \/ PreprocessReturn
    \/ PreResolution
    \/ DpllCall
    \/ DpllReturn
    \/ DpllDone
    \/ StartCDCL
    \/ CdclCall
    \/ CdclReturn
    \/ CdclAfterPreprocess
    \/ CdclDone
    \/ InstanceAborts

Spec == Init /\ [][Next]_vars

SpecCases == InitCases /\ [][Next]_vars

\* the instances run with restarts enabled and a restart due after one conflict
RestartCases ==
    Cases \o
    << [kinds |-> <<"A", "E", "E">>,
        lines |-> << <<-1, -2, 3>>, <<-1, -2, -3>>, <<1, -2, 3>>, <<1, -2, -3>> >>],
       [kinds |-> <<"E", "E", "E", "E">>,
        lines |-> << <<-1, -2, 3>>, <<-1, -2, -3>>, <<-1, -3, 4>>, <<-1, -3, -4>>,
                     <<-1, 2, 3, 4>>, <<-1, 2, 3, -4>> >>],
       [kinds |-> <<"E", "E", "E", "E">>,
        lines |-> << <<-1, 2>>, <<-1, 3>>, <<-2, 4>>, <<-3, 4>> >>],
       [kinds |-> <<"A", "E", "E", "E">>,
        lines |-> << <<1, 2>>, <<-1, -3>>, <<-3, 4>>, <<-3, -4>> >>] >>

InitRestarts ==
    /\ \E i \in 1..Len(RestartCases) :
          /\ variable_quantification = ParsedVariableQuantification(RestartCases[i].kinds)
          /\ quantification_order = ParsedQuantificationOrder(RestartCases[i].kinds)
          /\ formula = RestartCases[i].lines
    /\ config \in {c \in Configs : c.restarts}
    /\ restart_constant = ScaledRestartConstant
    /\ Start

SpecRestarts == InitRestarts /\ [][Next]_vars

\* the pre-resolution hyperparameters tried beside those of the tests: a length
\* limit and per-literal caps that small instances reach, and two iterations
ResolutionConfigsTried ==
    {TestResolutionConfig,
     [min_ratio |-> [num |-> 2, den |-> 1],
      max_ratio |-> [num |-> 1, den |-> 2],
      max_clause_length |-> 2,
      repeat_above |-> 1,
      iterations |-> 2],
     [min_ratio |-> [num |-> 1, den |-> 1],
      max_ratio |-> [num |-> 1, den |-> 4],
      max_clause_length |-> UsizeMax,
      repeat_above |-> 0,
      iterations |-> 2],
     [min_ratio |-> [num |-> 1, den |-> 1],
      max_ratio |-> [num |-> 4, den |-> 1],
      max_clause_length |-> UsizeMax,
      repeat_above |-> 3,
      iterations |-> 1]}

\* the instances run with pre-resolution enabled
ResolutionCases ==
    << [kinds |-> <<"E", "E", "E">>, lines |-> << <<1, 2>>, <<-1, 3>> >>],
       [kinds |-> <<"E", "E", "E">>,
        lines |-> << <<1, 2>>, <<-1, 3>>, <<-1, -2>>, <<1, -3>> >>],
       [kinds |-> <<"A", "E", "E">>,
        lines |-> << <<1, 2, 3>>, <<-1, -2, 3>>, <<2, -3>>, <<-2, -3>> >>],
       [kinds |-> <<"E", "E", "E", "E">>,
        lines |-> << <<1, 2, 3>>, <<-1, 2, 4>>, <<-1, -2, 3>>, <<1, -3, 4>>, <<-3, -4>> >>],
       [kinds |-> <<"E", "E", "E">>, lines |-> << <<-3>>, <<3>> >>],
       [kinds |-> <<"A", "E", "E", "E">>,
        lines |-> << <<1, 2>>, <<1, -2>>, <<-2, -3, 4>>, <<-2, -3, -4>> >>],
       [kinds |-> <<"E", "E", "E">>, lines |-> << <<1, 2>>, <<-1, 3>>, <<-1, -3>> >>] >>

InitResolution ==
    /\ \E i \in 1..Len(ResolutionCases) :
          /\ variable_quantification = ParsedVariableQuantification(ResolutionCases[i].kinds)
          /\ quantification_order = ParsedQuantificationOrder(ResolutionCases[i].kinds)
          /\ formula = ResolutionCases[i].lines
    /\ config \in [literal_selection : {"Ordered", "VariableStateSum"},
                   pre_resolution : {TRUE},
                   resolution_config : ResolutionConfigsTried,
                   pre_process : BOOLEAN,
                   universal_reduction : BOOLEAN,
                   pure_literal_deletion : BOOLEAN,
                   restarts : {FALSE}]
    /\ restart_constant = ScaledRestartConstant
    /\ Start

SpecResolution == InitResolution /\ [][Next]_vars

\* ------------------------------------------------- functions on their own
\* literal lists as get_literal_list gives them to resolve
\* the most clauses of a formula handed to unit propagation on its own
MaxPropagated == 5

\* formulas of unit clauses, repeated or not, and of clauses they shorten
PropagatedFormulas ==
    UNION {[1..n -> {<<1>>, <<2>>, <<-1, 2>>, <<2, 3>>, <<-2, 3>>}] : n \in 1..MaxPropagated}

\* the most restarts made one after the other
MaxRestartsInRow == 14

\* the formulas handed to remove_pure_literals on its own
PureFormulas == UNION {[1..n -> ClauseLines] : n \in 1..MaxClauses}

LiteralLists == UNION {[1..n -> {l \in (-NumVars)..NumVars : l # 0}] : n \in 0..MaxListLen}

\* a call resolve(literals_list_1, literals_list_2, literal), a call
\* detect_universal_literal(clause) or the speculative reduction of
\* cdcl::unit_propagate (remove_universal_literal, then readd_universal_literal)
\* on a clause whose literals are kept in the order of the prefix, before it
\* is made
Calls ==
    [name : {"resolve"}, literals_list_1 : LiteralLists, literals_list_2 : LiteralLists,
     literal : {l \in (-NumVars)..NumVars : l # 0}, returned : {FALSE}]
    \cup [name : {"detect_universal_literal", "reduce_unreduce"},
          clause : {ParsedClause(line) : line \in ClauseLines}, returned : {FALSE}]
    \cup [name : {"unit_propagate"}, variant : {"DPLL", "CDCL"}, lines : PropagatedFormulas,
          returned : {FALSE}]
    \cup [name : {"perform_restart"}, constant : {ScaledRestartConstant, RestartConstant},
          restarts : 1..MaxRestartsInRow, returned : {FALSE}]
    \cup [name : {"remove_pure_literals"}, lines : PureFormulas, returned : {FALSE}]
    \cup [name : {"select_literal", "select_literal_vss"}, lines : PureFormulas,
          returned : {FALSE}]
    \cup {[name |-> "falsify", clause |-> ParsedClause(line), literal |-> l, returned |-> FALSE] :
             <<line, l>> \in {x \in ClauseLines \X Lits : Contains(x[1], x[2])}}
    \cup [name : {"propagate_literal"}, variant : {"DPLL", "CDCL"}, lines : PureFormulas,
          literal : {l \in (-NumVars)..NumVars : l # 0}, listed : BOOLEAN, returned : {FALSE}]

InitFunctions ==
    /\ \E kinds \in [1..NumVars -> {"E", "A"}] :
          /\ variable_quantification = ParsedVariableQuantification(kinds)
          /\ quantification_order = ParsedQuantificationOrder(kinds)
    /\ formula = <<>>
    /\ config \in {c \in Configs : /\ ~c.restarts /\ ~c.pre_resolution /\ ~c.pre_process
                                    /\ c.universal_reduction /\ c.pure_literal_deletion
                                    /\ c.literal_selection = "Ordered"}
    /\ restart_constant = RestartConstant
    /\ solver = "DPLL"
    /\ pc = "function"
    /\ matrix = NoMatrix
    /\ stack = <<>>
    /\ arg = 0
    /\ ret = NoReturn
    /\ expired = FALSE
    /\ dpll_result = "none"
    /\ cdcl_result = "none"
    /\ pp_cont = "start"
    /\ operation \in Calls

pipeline == <<instance, config, restart_constant, solver, pc, matrix, stack, arg, ret, expired,
              dpll_result, cdcl_result, pp_cont>>

\* the call of resolve returns; the resolvent comes in the order in which the
\* HashSet of the source happens to list it
Resolve ==
    /\ operation.name = "resolve"
    /\ ~operation.returned
    /\ LET r == resolve(operation.literals_list_1, operation.literals_list_2,
                        operation.literal)
       IN \E order \in Perms(Range(r.literals)) :
             operation' = [name |-> "resolve",
                           literals_list_1 |-> operation.literals_list_1,
                           literals_list_2 |-> operation.literals_list_2,
                           literal |-> operation.literal,
                           returned |-> TRUE,
                           value |-> [r EXCEPT !.literals = order]]
    /\ UNCHANGED pipeline

\* the call of detect_universal_literal returns
DetectUniversalLiteral ==
    /\ operation.name = "detect_universal_literal"
    /\ ~operation.returned
    /\ operation' = [name |-> "detect_universal_literal",
                     clause |-> operation.clause,
                     returned |-> TRUE,
                     value |-> detect_universal_literal(operation.clause)]
    /\ UNCHANGED pipeline

\* remove_universal_literal with the literals detect_universal_literal returns,
\* then readd_universal_literal with the same literals, on the clause alone
ReduceUnreduce ==
    /\ operation.name = "reduce_unreduce"
    /\ ~operation.returned
    /\ LET universal_literals == detect_universal_literal(operation.clause)
           Readded(reduced) ==
               [reduced |-> reduced.clause_list[1],
                restored |-> readd_universal_literal(reduced, universal_literals, 1).clause_list[1]]
       IN operation' = [name |-> "reduce_unreduce",
                        clause |-> operation.clause,
                        returned |-> TRUE,
                        value |-> Readded(remove_universal_literal(
                                      [clause_list |-> <<operation.clause>>, clause_count |-> 1],
                                      universal_literals, 1))]
    /\ UNCHANGED pipeline

\* the body of the loop of cdcl::unit_propagate over the clauses that hold the
\* complement of the propagated literal, on a matrix of one clause that
\* holds it
Falsify ==
    /\ operation.name = "falsify"
    /\ ~operation.returned
    /\ operation' = [name |-> "falsify",
                     clause |-> operation.clause,
                     literal |-> operation.literal,
                     returned |-> TRUE,
                     value |-> CdclFalsifyLoop(
                                   [clause_list |-> <<operation.clause>>,
                                    clause_count |-> 1,
                                    clause_references |-> IndexOf(<<operation.clause>>),
                                    original_clause_list |-> <<operation.clause>>,
                                    conflict_clause |-> <<>>],
                                   operation.literal, <<1>>, <<>>, NoImplied)]
    /\ UNCHANGED pipeline

\* the call preprocess makes: unit_propagate on the unit literals of a freshly
\* built matrix; the value is the propagation counts it can end with
UnitPropagate ==
    /\ operation.name = "unit_propagate"
    /\ ~operation.returned
    /\ LET core_data == create_structures(operation.lines)
           unit_literals == get_unit_literals(core_data.clause_list)
           cdcl_matrix == [CDCLMatrixNew EXCEPT
                              !.clause_list = core_data.clause_list,
                              !.clause_count = core_data.clause_count,
                              !.clause_references = core_data.clause_references,
                              !.original_clause_list = core_data.clause_list]
       IN operation' = [name |-> "unit_propagate",
                        variant |-> operation.variant,
                        lines |-> operation.lines,
                        returned |-> TRUE,
                        value |-> IF operation.variant = "DPLL"
                                  THEN {r.propagation_count :
                                          r \in DpllPropagateLoop(core_data, unit_literals, 0)}
                                  ELSE {cdcl_unit_propagate(cdcl_matrix, unit_literals,
                                                            FALSE).propagation_count}]
    /\ UNCHANGED pipeline

\* the thresholds in use from RestartData::new on, through `restarts` calls of
\* perform_restart
RECURSIVE Thresholds(_, _)
Thresholds(m, restarts) ==
    <<m.restart_data.conflicts_until_restart>>
       \o (IF restarts = 0 THEN <<>> ELSE Thresholds(perform_restart(m), restarts - 1))

PerformRestart ==
    /\ operation.name = "perform_restart"
    /\ ~operation.returned
    /\ operation' = [name |-> "perform_restart",
                     constant |-> operation.constant,
                     restarts |-> operation.restarts,
                     returned |-> TRUE,
                     value |-> Thresholds([restart_data |-> RestartDataNew(operation.constant),
                                           conflict_clause |-> <<>>],
                                          operation.restarts)]
    /\ UNCHANGED pipeline

\* remove_pure_literals on a freshly built matrix and the list get_pure_literals
\* gives for it, in one of the orders the keys of the index may be visited in
RemovePureLiterals ==
    /\ operation.name = "remove_pure_literals"
    /\ ~operation.returned
    /\ \E pure_literals \in Perms(get_pure_literals(
                                     create_structures(operation.lines).clause_references)) :
          operation' = [name |-> "remove_pure_literals",
                        lines |-> operation.lines,
                        pure_literals |-> pure_literals,
                        returned |-> TRUE,
                        value |-> remove_pure_literals(create_structures(operation.lines),
                                                       pure_literals)]
    /\ UNCHANGED pipeline

\* select_literal or select_literal_vss on a matrix whose prefix has lost the
\* entries of some variables (as propagation and earlier selections remove them)
Select ==
    /\ operation.name \in {"select_literal", "select_literal_vss"}
    /\ ~operation.returned
    /\ \E kept \in SUBSET Vars :
       \E m \in {[create_structures(operation.lines) EXCEPT
                      !.quantifier_list = SelectSeq(@, LAMBDA q : q.literal \in kept)]} :
          operation' = [name |-> operation.name,
                        lines |-> operation.lines,
                        matrix |-> m,
                        returned |-> TRUE,
                        value |-> IF operation.name = "select_literal"
                                  THEN select_literal(m)
                                  ELSE select_literal_vss(m)]
    /\ UNCHANGED pipeline

\* unit_propagate on a queue of one literal: a decision, whose entry
\* select_literal has taken from the prefix (listed = FALSE, recorded on the
\* trail by the CDCL variant), or a unit literal whose entry is in the prefix
PropagateLiteral ==
    /\ operation.name = "propagate_literal"
    /\ ~operation.returned
    /\ LET core_data == create_structures(operation.lines)
           listed == [core_data EXCEPT
                         !.quantifier_list =
                             SelectSeq(@, LAMBDA q : operation.listed
                                                       \/ q.literal # Abs(operation.literal))]
           cdcl_matrix == [CDCLMatrixNew EXCEPT
                              !.quantifier_list = listed.quantifier_list,
                              !.clause_list = listed.clause_list,
                              !.clause_count = listed.clause_count,
                              !.clause_references = listed.clause_references,
                              !.original_clause_list = listed.clause_list]
       IN operation' = [name |-> "propagate_literal",
                        variant |-> operation.variant,
                        lines |-> operation.lines,
                        literal |-> operation.literal,
                        listed |-> operation.listed,
                        returned |-> TRUE,
                        before |-> listed,
                        value |-> IF operation.variant = "DPLL"
                                  THEN dpll_unit_propagate(listed, <<operation.literal>>)
                                  ELSE {cdcl_unit_propagate(cdcl_matrix, <<operation.literal>>,
                                                            ~operation.listed).m}]
    /\ UNCHANGED pipeline

NextFunctions == Resolve \/ DetectUniversalLiteral \/ ReduceUnreduce \/ Falsify \/ UnitPropagate \/ PerformRestart \/ RemovePureLiterals \/ Select \/ PropagateLiteral

SpecFunctions == InitFunctions /\ [][NextFunctions]_vars

\* ------------------------------------------------------ QBF semantics
Satisfies(val, line) == \E i \in 1..Len(line) : val[Abs(line[i])] = (line[i] > 0)

\* truth of the closed formula with the variables below v fixed by val
RECURSIVE QbfTrueFrom(_, _)
QbfTrueFrom(v, val) ==
    IF v > Len(variable_quantification) THEN \A i \in 1..Len(formula) : Satisfies(val, formula[i])
    ELSE IF QType(v) = "E"
    THEN \E b \in BOOLEAN : QbfTrueFrom(v + 1, [val EXCEPT ![v] = b])
    ELSE \A b \in BOOLEAN : QbfTrueFrom(v + 1, [val EXCEPT ![v] = b])

QbfTrue == QbfTrueFrom(1, [v \in Vars |-> FALSE])

\* ---------------------------------------------------------------- claims
\* the clauses that are not removed, and the literals of a clause
Active(m) == {i \in 1..Len(m.clause_list) : ~m.clause_list[i].is_removed}

LitsOf(m, i) == Range(get_literal_list(m.clause_list[i]))

\* the result of the pipeline that has just ended
Result == IF solver = "DPLL" THEN dpll_result ELSE cdcl_result

\* C1: with pre-resolution off, the DPLL pipeline (preprocess if enabled, then
\* dpll(matrix, None)) ends with SAT iff the formula is true under the QBF
\* semantics, for every combination of preprocessing, universal reduction,
\* pure-literal deletion and the two selections, unless it ends with Timeout;
\* no panic ends that pipeline
DpllCorrect ==
    /\ (solver = "DPLL" /\ ~config.pre_resolution) => pc # "abort"
    /\ (pc = "done" /\ ~config.pre_resolution /\ dpll_result # "Timeout") =>
           dpll_result = IF QbfTrue THEN "SAT" ELSE "UNSAT"

\* a false formula with a universal variable that the search, not
\* preprocessing, has decided
DpllDecidedBySearch ==
    /\ pc = "done"
    /\ solver = "DPLL"
    /\ ~config.pre_process
    /\ config.universal_reduction
    /\ dpll_result = "UNSAT"
    /\ \E v \in Vars : QType(v) = "A"
    /\ Len(formula) = MaxClauses

\* C2: the DPLL pipeline and the CDCL pipeline end with the same SAT/UNSAT
\* result on every instance and configuration on which neither ends with
\* Timeout
PipelinesAgree ==
    (pc = "done" /\ solver = "CDCL" /\ dpll_result # "Timeout" /\ cdcl_result # "Timeout") =>
        cdcl_result = dpll_result

\* C3: on the six scenarios both pipelines end with the stated result under
\* every configuration (unless the deadline passes)
ScenarioResults == <<"SAT", "UNSAT", "SAT", "SAT", "SAT", "UNSAT">>

Scenario(i) ==
    /\ formula = Cases[i].lines
    /\ Len(variable_quantification) = Len(Cases[i].kinds)
    /\ \A v \in Vars : QType(v) = Cases[i].kinds[v]

ScenariosDecided ==
    \A i \in 1..Len(ScenarioResults) :
        (Scenario(i) /\ pc = "done" /\ Result # "Timeout") => Result = ScenarioResults[i]

\* C4: preprocessing never aborts the instance: the driver call made after a
\* preprocessing that ended with the empty clause set returns SAT, the one made
\* after a preprocessing that derived the empty clause returns UNSAT, at the
\* start of either pipeline and after the re-run that follows a learned unit
\* clause, and no panic ends the instance
PreprocessVerdict == IF contains_empty_set(matrix) THEN "SAT" ELSE "UNSAT"

PreprocessDecides ==
    [][/\ (/\ pc = "call" /\ stack = <<>> /\ arg = 0
           /\ config.pre_process /\ ~config.pre_resolution
           /\ check_solved(matrix) /\ ~expired /\ ~expired')
          => (pc' = "ret" /\ ret'.result = PreprocessVerdict)
       /\ (pc = "pp_return" /\ pp_cont = "unit" /\ check_solved(matrix))
          => (pc' = "ret" /\ ret'.result = PreprocessVerdict)
       /\ (pc \in {"pp_unit", "pp_pure", "pp_reduce", "pp_simplify"} => pc' # "abort")]_vars

\* C5: a Restart a cdcl frame returns has an enclosing frame of decision level
\* 1 to consume it, and the outermost call of cdcl never returns Restart
RestartConsumed ==
    /\ cdcl_result # "Restart"
    /\ (pc = "ret" /\ ret.result = "Restart") =>
          \E i \in 1..Len(stack) :
              ~stack[i].tail /\ stack[i].stored_structures.decision_level = 1

\* C6: once a call of dpll or cdcl has returned Timeout, every enclosing frame
\* returns Timeout in turn without calling the driver again, and the pipeline
\* ends with Timeout
TimeoutPropagates ==
    [][(pc = "ret" /\ ret.result = "Timeout") =>
          /\ ret'.result = "Timeout"
          /\ \/ (pc' = "ret" /\ stack # <<>> /\ stack' = SubSeq(stack, 1, Len(stack) - 1))
             \/ (pc' = "done" /\ stack = <<>> /\ Result' = "Timeout")]_vars

\* a Timeout on its way out of nested cdcl frames
TimeoutInNestedCall ==
    /\ pc = "ret"
    /\ solver = "CDCL"
    /\ ret.result = "Timeout"
    /\ Len(stack) >= 2

\* C7: when preprocessing returns before the deadline with a clause set that
\* is neither empty nor holds the empty clause, no active clause is a unit
\* clause, no literal is pure in the active clauses (pure-literal deletion
\* on), and no clause has a literal universal reduction removes (universal
\* reduction on)
NoUnit(m) == \A i \in Active(m) : Cardinality(LitsOf(m, i)) # 1

NoPure(m) ==
    \A l \in Lits : (\E i \in Active(m) : l \in LitsOf(m, i)) =>
                        (\E i \in Active(m) : -l \in LitsOf(m, i))

Reducible(m, i, u) ==
    /\ QType(Abs(u)) = "A"
    /\ \A e \in LitsOf(m, i) : QType(Abs(e)) = "E" => QLevel(Abs(e)) < QLevel(Abs(u))

NoReducible(m) == \A i \in Active(m) : \A u \in LitsOf(m, i) : ~Reducible(m, i, u)

PreprocessFixedPoint ==
    (pc = "pp_return" /\ ~expired /\ ~check_solved(matrix)) =>
        /\ NoUnit(matrix)
        /\ (config.pure_literal_deletion => NoPure(matrix))
        /\ (config.universal_reduction => NoReducible(matrix))

\* C8: between operations the index maps a literal l to a clause i iff clause
\* i is not removed and contains l
IndexExact ==
    pc \notin {"new", "function", "abort"} =>
        \A l \in Lits : \A i \in 1..Len(matrix.clause_list) :
            Contains(matrix.clause_references[l], i)
                <=> (i \in Active(matrix) /\ l \in LitsOf(matrix, i))

\* C9: resolve(C1, C2, l) returns None iff (C1 u C2) \ {l, -l} holds a literal
\* and its complement; otherwise it returns the literals of that set, each once
ResolveSound ==
    (operation.name = "resolve" /\ operation.returned) =>
        LET resolvent == (Range(operation.literals_list_1)
                            \cup Range(operation.literals_list_2))
                              \ {operation.literal, -operation.literal}
        IN /\ ~operation.value.valid <=> (\E x \in resolvent : -x \in resolvent)
           /\ operation.value.valid =>
                 /\ Range(operation.value.literals) = resolvent
                 /\ Len(operation.value.literals) = Cardinality(resolvent)

\* a resolvent of two clauses that hold the pivot and its complement
ResolventReturned ==
    /\ operation.name = "resolve"
    /\ operation.returned
    /\ operation.value.valid
    /\ Contains(operation.literals_list_1, operation.literal)
    /\ Contains(operation.literals_list_2, -operation.literal)
    /\ Len(operation.value.literals) = 2

\* C10: for a clause whose literals are in prefix order detect_universal_literal
\* returns exactly the universal literals u of the clause such that every
\* existential literal e of the clause has q_level(e) < q_level(u), which is
\* every universal literal when the clause has no existential literal
DetectExact ==
    (operation.name = "detect_universal_literal" /\ operation.returned) =>
        LET clause == operation.clause
            reducible == {u \in Range(clause.a_literals) :
                             \A e \in Range(clause.e_literals) :
                                 QLevel(Abs(e)) < QLevel(Abs(u))}
        IN /\ Range(operation.value) = reducible
           /\ Len(operation.value) = Cardinality(reducible)
           /\ clause.e_literals = <<>> => Range(operation.value) = Range(clause.a_literals)

\* a clause of which some but not all universal literals are returned
DetectedSome ==
    /\ operation.name = "detect_universal_literal"
    /\ operation.returned
    /\ operation.clause.e_literals # <<>>
    /\ operation.value # <<>>
    /\ Len(operation.value) < Len(operation.clause.a_literals)

\* C11: remove_universal_literal with the literals detect_universal_literal
\* returns, followed by readd_universal_literal with the same literals, gives
\* the clause its existential and universal sublists back, same literals in
\* the same order; and cdcl::unit_propagate with universal reduction on leaves
\* a clause that the speculative reduction does not empty with the literals it
\* had once the falsified literal was dropped, in the same order
ReduceUnreduceIdentity ==
    /\ (operation.name = "reduce_unreduce" /\ operation.returned) =>
           /\ operation.value.restored.e_literals = operation.clause.e_literals
           /\ operation.value.restored.a_literals = operation.clause.a_literals
    /\ (/\ operation.name = "falsify" /\ operation.returned
        /\ config.universal_reduction
        /\ ~contains_empty_clause(operation.value.m)) =>
           /\ operation.value.m.clause_list[1].e_literals
                 = SelectSeq(operation.clause.e_literals, LAMBDA x : x # operation.literal)
           /\ operation.value.m.clause_list[1].a_literals
                 = SelectSeq(operation.clause.a_literals, LAMBDA x : x # operation.literal)

\* a clause that keeps an existential literal and gets two universal literals
\* back
ReducedAndRestored ==
    /\ operation.name = "reduce_unreduce"
    /\ operation.returned
    /\ operation.clause.e_literals # <<>>
    /\ Len(operation.value.reduced.a_literals) + 2 = Len(operation.clause.a_literals)

\* a call of cdcl has returned to a caller that is about to restore its snapshot
Restoring == pc = "ret" /\ solver = "CDCL" /\ stack # <<>> /\ ~stack[Len(stack)].tail

Snapshot == stack[Len(stack)].stored_structures

Restored == restore_necessary_structures(matrix, Snapshot)

\* C12 as stated: restore_necessary_structures applied to the value of
\* cache_necessary_structures yields a clause list, clause count, index, trail,
\* assignment map, prefix and decision level identical to those of the
\* snapshot, whatever ran in between
SnapshotRestoreIdentity ==
    Restoring => /\ ~Restored.panic
                 /\ cache_necessary_structures(Restored.m) = Snapshot

\* C12 amended: restore_necessary_structures yields the trail, assignment map,
\* prefix and decision level of the snapshot; its clause list is the snapshot's
\* followed by the learned clauses the snapshot does not hold (each with the
\* assigned literals dropped), its clause count is the snapshot's plus the
\* number of clauses appended, and its index is the snapshot's with the
\* appended clauses added
SnapshotRestoreExtends ==
    Restoring =>
        /\ ~Restored.panic
        /\ Restored.m.trail = Snapshot.trail
        /\ Restored.m.assignments = Snapshot.assignments
        /\ Restored.m.quantifier_list = Snapshot.quantifier_list
        /\ Restored.m.decision_level = Snapshot.decision_level
        /\ Len(Restored.m.clause_list) >= Len(Snapshot.clause_list)
        /\ SubSeq(Restored.m.clause_list, 1, Len(Snapshot.clause_list)) = Snapshot.clause_list
        /\ \A i \in Len(Snapshot.clause_list) + 1 .. Len(Restored.m.clause_list) :
              \E reference \in Range(matrix.learned_clause_refs) :
                 /\ reference > Len(Snapshot.clause_list)
                 /\ Restored.m.clause_list[i]
                      = apply_current_assignments(Restored.m, matrix.original_clause_list[reference])
        /\ Restored.m.clause_count
             = Snapshot.clause_count + Len(Restored.m.clause_list) - Len(Snapshot.clause_list)
        /\ \A l \in DOMAIN Snapshot.clause_references :
              /\ Len(Restored.m.clause_references[l]) >= Len(Snapshot.clause_references[l])
              /\ SubSeq(Restored.m.clause_references[l], 1, Len(Snapshot.clause_references[l]))
                   = Snapshot.clause_references[l]
              /\ \A k \in Len(Snapshot.clause_references[l]) + 1
                             .. Len(Restored.m.clause_references[l]) :
                    /\ Restored.m.clause_references[l][k] > Len(Snapshot.clause_list)
                    /\ Contains(get_literal_list(
                                    Restored.m.clause_list[Restored.m.clause_references[l][k]]), l)

RestoreReaddsLearned ==
    /\ Restoring
    /\ ~Restored.panic
    /\ Len(Restored.m.clause_list) > Len(Snapshot.clause_list)
    /\ Snapshot.trail # matrix.trail

\* C13: a call of unit propagation (DPLL or CDCL variant) dequeues no more
\* literals than the formula has variables
PropagationBounded ==
    (operation.name = "unit_propagate" /\ operation.returned) =>
        \A propagation_count \in operation.value : propagation_count <= Cardinality(Vars)

\* the Luby sequence up to its element 2^k - 1: each block is the one before
\* it twice, followed by the next power of two
RECURSIVE LubyPrefix(_)
LubyPrefix(k) ==
    IF k = 1 THEN <<1>> ELSE LubyPrefix(k - 1) \o LubyPrefix(k - 1) \o <<Pow2(k - 1)>>

LubyBlocks == 4

LubySequence == LubyPrefix(LubyBlocks)

LubyValues ==
    /\ \A i \in 1..Len(LubySequence) : \A constant \in {ScaledRestartConstant, RestartConstant} :
          update_conflicts_until_restart(constant, i) = constant * LubySequence[i]
    /\ [i \in 1..15 |-> update_conflicts_until_restart(1, i)]
         = <<1, 1, 2, 1, 1, 2, 4, 1, 1, 2, 1, 1, 2, 4, 8>>

\* C14: update_conflicts_until_restart(i) sets the threshold to the constant
\* times the i-th element of the Luby sequence; with constant 1 the values
\* for i = 1..15 are 1,1,2,1,1,2,4,1,1,2,1,1,2,4,8; and the threshold in use
\* after the restarts made so far is the constant times the element of the
\* sequence at the restart counter, the first being the constant itself
LubyThresholds ==
    /\ LubyValues
    /\ (operation.name = "perform_restart" /\ operation.returned) =>
          operation.value = [i \in 1..operation.restarts + 1 |->
                                operation.constant * LubySequence[i]]

RestartedOften ==
    /\ operation.name = "perform_restart"
    /\ operation.returned
    /\ operation.restarts = MaxRestartsInRow
    /\ operation.value[1] = operation.constant
    /\ operation.value[Len(operation.value)] = 8 * operation.constant

\* the literals that occur in a clause not removed and whose negation occurs
\* in none
PureIn(m) ==
    {l \in Lits : /\ \E i \in Active(m) : l \in LitsOf(m, i)
                  /\ \A i \in Active(m) : -l \notin LitsOf(m, i)}

\* the matrix after the universal-reduction sweep of preprocess
Swept ==
    IF config.universal_reduction
    THEN ApplyReductions(matrix, get_universal_literals_for_reduction(matrix.clause_list))
    ELSE matrix

\* C15: where preprocessing evaluates get_pure_literals on the index of the
\* solver (at the pure-literal step and at the test that ends the loop), it
\* returns exactly the literals that occur in a clause not removed and whose
\* negation occurs in no clause not removed
PureLiteralsExact ==
    /\ (pc = "pp_pure" /\ config.pure_literal_deletion) =>
           get_pure_literals(matrix.clause_references) = PureIn(matrix)
    /\ (/\ pc = "pp_reduce"
        /\ config.pure_literal_deletion
        /\ ~(config.universal_reduction /\ check_solved(Swept))) =>
           get_pure_literals(Swept.clause_references) = PureIn(Swept)

\* the matrix remove_pure_literals was called on, and what it left
PureBefore == create_structures(operation.lines)

PureAfter == operation.value.m

PureListed(q_type) == {l \in Range(operation.pure_literals) : QType(Abs(l)) = q_type}

\* the clauses of the matrix before the call that hold a pure literal of the kind
PureClauses(q_type) ==
    {i \in 1..Len(PureBefore.clause_list) : LitsOf(PureBefore, i) \cap PureListed(q_type) # {}}

\* what remove_pure_literals is to have done to the whole of its list
PureListProcessed ==
    /\ \A l \in Range(operation.pure_literals) :
          \A i \in 1..Len(PureAfter.quantifier_list) :
             PureAfter.quantifier_list[i].literal # Abs(l)
    /\ \A i \in PureClauses("E") : PureAfter.clause_list[i].is_removed
    /\ PureAfter.clause_count = PureBefore.clause_count - Cardinality(PureClauses("E"))
    /\ \A i \in PureClauses("A") \ PureClauses("E") :
          /\ LitsOf(PureAfter, i) \cap PureListed("A") = {}
          /\ ~PureAfter.clause_list[i].is_removed
          /\ is_unit_clause(PureAfter.clause_list[i]) # 0 =>
                 is_unit_clause(PureAfter.clause_list[i]) \in Range(operation.value.units)
    /\ \A unit \in Range(operation.value.units) :
          \E i \in PureClauses("A") : unit \in LitsOf(PureBefore, i) \ PureListed("A")

\* C16 as stated: remove_pure_literals removes the variable of each literal of
\* its list from the prefix; marks every clause holding an existential pure
\* literal removed, decrementing clause_count once per such clause; deletes a
\* universal pure literal from every clause holding it without removing the
\* clause; and returns the remaining literal of every clause that such a
\* deletion made a unit clause
PureLiteralsRemoved ==
    (operation.name = "remove_pure_literals" /\ operation.returned) => PureListProcessed

\* C16 amended: remove_pure_literals does all of that when it ends with a
\* clause left and no clause empty; otherwise it has returned at the removal
\* of the last clause (every clause is marked removed) or at the deletion that
\* emptied a clause (clause_count is -1), the rest of its list untouched, and
\* the variable of the first literal of the list is gone from the prefix
PureLiteralsRemovedUnlessSolved ==
    (operation.name = "remove_pure_literals" /\ operation.returned
        /\ operation.pure_literals # <<>>) =>
        /\ PureAfter.clause_count > 0 => PureListProcessed
        /\ PureAfter.clause_count <= 0 =>
              /\ \A i \in 1..Len(PureAfter.quantifier_list) :
                    PureAfter.quantifier_list[i].literal # Abs(operation.pure_literals[1])
              /\ PureAfter.clause_count = 0 =>
                    \A i \in 1..Len(PureAfter.clause_list) : PureAfter.clause_list[i].is_removed
              /\ PureAfter.clause_count = -1 =>
                    \E i \in PureClauses("A") : is_empty(PureAfter.clause_list[i])

PureListDone ==
    /\ operation.name = "remove_pure_literals" /\ operation.returned
    /\ PureAfter.clause_count > 0
    /\ PureClauses("E") # {}
    /\ operation.value.units # <<>>

\* the literals follow one another in the order sort_order lists their variables
InOrder(sort_order, literals) ==
    \A i \in 1..Len(literals) :
       /\ OrderPosition(sort_order, literals[i]) # 0
       /\ \A j \in (i + 1)..Len(literals) :
             OrderPosition(sort_order, literals[i]) <= OrderPosition(sort_order, literals[j])

\* C17: in every reachable state each clause of the clause list of the matrix
\* has its existential literals and its universal literals in the order of the
\* quantifier prefix
ClausesInPrefixOrder ==
    pc \notin {"new", "function"} =>
        \A i \in 1..Len(matrix.clause_list) :
           /\ InOrder(existential_literal_order, matrix.clause_list[i].e_literals)
           /\ InOrder(universal_literal_order, matrix.clause_list[i].a_literals)

LearnedClauseInOrder ==
    /\ solver = "CDCL"
    /\ pc = "call"
    /\ \E i \in 1..Len(matrix.learned_clause_refs) :
          /\ matrix.learned_clause_refs[i] <= Len(matrix.clause_list)
          /\ Len(matrix.original_clause_list[matrix.learned_clause_refs[i]].e_literals) >= 2
          /\ matrix.clause_list[matrix.learned_clause_refs[i]].e_literals # <<>>

\* the prefix select_literal or select_literal_vss was called with
Prefix == operation.matrix.quantifier_list

\* the number of clauses of the matrix of the call that hold the literal
Occurrences(l) ==
    Cardinality({i \in Active(operation.matrix) : l \in LitsOf(operation.matrix, i)})

\* the positions of the prefix whose variable occurs in a clause
Occurring ==
    {i \in 1..Len(Prefix) :
        Occurrences(Prefix[i].literal) + Occurrences(-Prefix[i].literal) > 0}

FirstOccurring == CHOOSE i \in Occurring : \A j \in Occurring : i <= j

\* C19: select_literal returns the first entry of the prefix whose variable
\* occurs in a clause of the index, with its kind, and removes from the prefix
\* that entry and every entry before it, leaving the rest as it was
SelectsFirstOccurring ==
    (operation.name = "select_literal" /\ operation.returned /\ Occurring # {}) =>
        /\ ~operation.value.panic
        /\ operation.value.literal = Prefix[FirstOccurring].literal
        /\ operation.value.q_type = Prefix[FirstOccurring].q_type
        /\ operation.value.m
             = [operation.matrix EXCEPT
                   !.quantifier_list = SubSeq(Prefix, FirstOccurring + 1, Len(Prefix))]

SkippedVacuous ==
    /\ operation.name = "select_literal" /\ operation.returned
    /\ Occurring # {}
    /\ FirstOccurring = 2
    /\ Len(Prefix) = 3

\* the position in the prefix of the entry select_literal_vss chose
Chosen == CHOOSE i \in 1..Len(Prefix) : Prefix[i].literal = Abs(operation.value.literal)

Sum(i) == Occurrences(Prefix[i].literal) + Occurrences(-Prefix[i].literal)

\* the occurring entries of the outermost run of entries of one kind that has one
OutermostBlock ==
    {i \in Occurring :
        \A k \in 1..Len(Prefix) :
           ((FirstOccurring <= k /\ k <= i) \/ (i <= k /\ k <= FirstOccurring)) =>
               Prefix[k].q_type = Prefix[FirstOccurring].q_type}

\* the occurring entries before the first occurring entry of the other kind
Candidates ==
    {i \in Occurring :
        \A k \in Occurring : k <= i => Prefix[k].q_type = Prefix[FirstOccurring].q_type}

\* the entries the scan passed: all of them, or those before the first
\* occurring entry of the other kind
Scanned ==
    {i \in 1..Len(Prefix) :
        \A k \in Occurring : k <= i => Prefix[k].q_type = Prefix[FirstOccurring].q_type}

\* what select_literal_vss did, given the entries it was to choose among
VssChose(block) ==
    /\ ~operation.value.panic
    /\ \E i \in 1..Len(Prefix) : Prefix[i].literal = Abs(operation.value.literal)
    /\ Chosen \in block
    /\ \A i \in block : Sum(i) <= Sum(Chosen)
    /\ operation.value.q_type = Prefix[FirstOccurring].q_type
    /\ operation.value.q_type = Prefix[Chosen].q_type
    /\ operation.value.literal < 0
          <=> Occurrences(-Prefix[Chosen].literal) >= Occurrences(Prefix[Chosen].literal)
    /\ operation.value.m
         = [operation.matrix EXCEPT
               !.quantifier_list =
                   SelectSeq(@, LAMBDA q :
                       \E i \in 1..Len(Prefix) :
                          /\ Prefix[i] = q
                          /\ i # Chosen
                          /\ i \in Occurring \/ i \notin Scanned)]

\* C18 as stated: select_literal_vss returns a variable of the outermost block
\* of one kind that has a variable occurring in a clause, one with the largest
\* number of occurrences in that block, never one of a later block of the other
\* kind; negated iff the negative literal occurs at least as often as the
\* positive; and the prefix afterwards is the old one without the chosen entry
\* and without the scanned entries that occur in no clause
VssSelectsInOutermostBlock ==
    (operation.name = "select_literal_vss" /\ operation.returned /\ Occurring # {}) =>
        VssChose(OutermostBlock)

\* C18 amended: the entries select_literal_vss chooses among are the occurring
\* entries that come before the first occurring entry of the other kind than
\* the first occurring entry: entries that occur in no clause do not end a block
VssSelectsBeforeOtherKind ==
    (operation.name = "select_literal_vss" /\ operation.returned /\ Occurring # {}) =>
        VssChose(Candidates)

VssChoseLater ==
    /\ operation.name = "select_literal_vss" /\ operation.returned
    /\ Occurring # {}
    /\ Chosen > FirstOccurring
    /\ operation.value.literal < 0
    /\ Len(operation.value.m.quantifier_list) = 1

\* a call of cdcl has returned UNSAT with a learned clause to a frame that made
\* it as its recursive call
ReceivesLearned ==
    /\ Restoring
    /\ ret.result = "UNSAT"
    /\ ~is_empty(ret.learned_clause)

\* the decision level of the frame once it has restored its snapshot
FrameLevel == Snapshot.decision_level

\* what the frame does with the learned clause it receives
LearnedHandled ==
    ReceivesLearned =>
        /\ FrameLevel >= ret.backtrack_level
        /\ (/\ FrameLevel > ret.backtrack_level
            /\ ~(is_unit_clause(ret.learned_clause) # 0 /\ FrameLevel = 1)) =>
               /\ pc' = "ret"
               /\ ret' = ret
               /\ stack' = SubSeq(stack, 1, Len(stack) - 1)
               /\ matrix'.original_clause_list = matrix.original_clause_list
               /\ matrix'.learned_clause_refs = matrix.learned_clause_refs
        /\ (\/ FrameLevel = ret.backtrack_level
            \/ (is_unit_clause(ret.learned_clause) # 0 /\ FrameLevel = 1)) =>
               /\ pc' = IF FrameLevel = ret.backtrack_level THEN "call" ELSE "pp_unit"
               /\ matrix'.original_clause_list
                    = Append(matrix.original_clause_list, ret.learned_clause)
               /\ Len(matrix'.learned_clause_refs) = Len(matrix.learned_clause_refs) + 1
               /\ matrix'.decision_level = FrameLevel - 1

\* the outermost call of cdcl does not return UNSAT with a learned clause
OutermostReturnsNoLearned ==
    (pc = "ret" /\ solver = "CDCL" /\ stack = <<>>) =>
        ~(ret.result = "UNSAT" /\ ~is_empty(ret.learned_clause))

\* C20 as stated: an UNSAT result with a learned clause and backjump level b is
\* returned unchanged by the frames of a level above b and committed to the
\* clause database once, by the frame of level b (or the frame of level 1 when
\* the clause is unit); so the outermost call of cdcl never returns UNSAT with
\* a learned clause
LearnedConsumedInside == [][LearnedHandled /\ OutermostReturnsNoLearned]_vars

\* C20 amended: the frames that receive the result from their recursive call
\* hand it up or commit it as stated; a result of a call made as the second
\* branch of a decision is returned as it is, so that the outermost call can
\* return UNSAT with a learned clause
LearnedHandedUpOrCommitted == [][LearnedHandled]_vars

LearnedCommitted ==
    /\ ReceivesLearned
    /\ FrameLevel = ret.backtrack_level
    /\ Len(stack) >= 2
    /\ get_clause_length(ret.learned_clause) >= 2

\* ------------------------------------------ conflict analysis within a run
\* the result of the unit propagation at the head of the loop of cdcl
Propagated ==
    IF arg # 0 THEN cdcl_unit_propagate(matrix, <<arg>>, TRUE)
    ELSE [m |-> matrix, panic |-> FALSE, propagation_count |-> 0]

\* the next pass of the loop of cdcl calls analyse_conflict
Analysing ==
    /\ pc = "call"
    /\ solver = "CDCL"
    /\ ~expired
    /\ WithinSearchBounds
    /\ ~Propagated.panic
    /\ ~contains_empty_set(Propagated.m)
    /\ contains_empty_clause(Propagated.m)
    /\ ~(config.restarts /\ should_restart(Propagated.m))

\* what that call of analyse_conflict returns
Analysis == analyse_conflict(Propagated.m)

\* the working clause holds only universal literals, or every existential
\* literal of it is assigned at decision level 0
CriterionHolds(m, literals) ==
    \/ \A i \in 1..Len(literals) : variable_quantification[Abs(literals[i])].q_type = "A"
    \/ \A i \in 1..Len(literals) :
          variable_quantification[Abs(literals[i])].q_type = "E"
              => /\ m.assignments[Abs(literals[i])].value # 0
                 /\ m.assignments[Abs(literals[i])].decision_level = 0

CriterionMet ==
    /\ Analysing
    /\ \E i \in 1..Len(Analysis.steps) :
          CriterionHolds(Propagated.m, Analysis.steps[i].resolvent)

\* the result (empty clause, -1, UNSAT) passes through the frames to run_instance
UnsatisfiablePasses ==
    (pc = "ret" /\ solver = "CDCL" /\ ret = unsatisfiable) =>
        /\ ret' = ret
        /\ IF stack = <<>>
           THEN pc' = "done" /\ cdcl_result' = "UNSAT"
           ELSE pc' = "ret" /\ stack' = SubSeq(stack, 1, Len(stack) - 1)

\* C21: when a resolution step of conflict analysis leaves a working clause
\* with only universal literals, or with every existential literal assigned at
\* decision level 0, analyse_conflict returns the empty clause with level -1,
\* every enclosing frame returns that result unchanged and the outermost call
\* returns UNSAT with no decision made in between
UnsatCriterionEndsSearch ==
    [][/\ (CriterionMet /\ expired' = expired) =>
              /\ ~Analysis.panic
              /\ is_empty(Analysis.clause)
              /\ Analysis.backtrack_level = -1
              /\ ret' = unsatisfiable
              /\ pc' = "ret"
              /\ stack' = stack
       /\ UnsatisfiablePasses]_vars

\* the criterion is met by a resolvent of universal literals under two open
\* decisions
CriterionMetInNestedCall ==
    /\ CriterionMet
    /\ Len(stack) >= 2
    /\ Analysis.steps[Len(Analysis.steps)].resolvent # <<>>

\* a resolution of conflict analysis: on an implied existential literal that
\* the reason clause holds and whose complement the working clause holds
WellFormed(step) ==
    /\ ~is_decision(step.assignment)
    /\ variable_quantification[Abs(step.assignment.value)].q_type = "E"
    /\ Contains(step.working, -step.assignment.value)
    /\ Contains(step.reason, step.assignment.value)

\* C22: every resolution step of conflict analysis resolves the working clause,
\* which holds the complement of the popped literal, with the original form of
\* the reason clause, which holds the literal, and the popped record is an
\* implication on an existential variable (no decision and no record of a
\* universal variable causes a resolution)
ResolutionsWellFormed ==
    Analysing => \A i \in 1..Len(Analysis.steps) : WellFormed(Analysis.steps[i])

\* an analysis that resolves twice
ResolvedTwice == Analysing /\ Len(Analysis.steps) >= 2

\* analyse_conflict returns a learned clause with records left on its copy of
\* the trail
Learned == Analysing /\ ~Analysis.panic /\ ~is_empty(Analysis.clause) /\ ~Analysis.exhausted

LearnedLiterals == Range(get_literal_list(Analysis.clause))

LearnedExistentials == {l \in LearnedLiterals : variable_quantification[Abs(l)].q_type = "E"}

AssignedLevel(l) == Analysis.m.assignments[Abs(l)].decision_level

\* the existential literals of the learned clause at the greatest decision level
Highest ==
    {l \in LearnedExistentials : \A k \in LearnedExistentials : AssignedLevel(k) <= AssignedLevel(l)}

\* the records of the trail at the decision level of l
RecordsAt(level) == SelectSeq(Analysis.m.trail, LAMBDA a : a.decision_level = level)

ConstraintOne == Cardinality(Highest) = 1

\* the first record of the level is a decision on an existential variable
OpenedByExistential ==
    \A l \in Highest :
        /\ RecordsAt(AssignedLevel(l)) # <<>>
        /\ is_decision(Head(RecordsAt(AssignedLevel(l))))
        /\ variable_quantification[Abs(Head(RecordsAt(AssignedLevel(l))).value)].q_type = "E"

\* the last decision recorded at the level is on an existential variable
LastDecisionExistential ==
    \A l \in Highest :
        LET decisions == SelectSeq(RecordsAt(AssignedLevel(l)), is_decision)
        IN /\ decisions # <<>>
           /\ variable_quantification[Abs(decisions[Len(decisions)].value)].q_type = "E"

ConstraintThree ==
    \A l \in Highest : \A u \in LearnedLiterals :
        (/\ variable_quantification[Abs(u)].q_type = "A"
         /\ variable_quantification[Abs(u)].q_level < variable_quantification[Abs(l)].q_level)
            => Analysis.m.assignments[Abs(u)].value = -u

\* C23 as stated: a learned clause returned before the copy of the trail is
\* exhausted has exactly one existential literal at the greatest decision
\* level of its existential literals, the decision that opened that level is
\* on an existential variable, and its universal literals of a smaller
\* quantifier level than that literal are assigned false
StoppingConstraintsMet ==
    Learned => ConstraintOne /\ OpenedByExistential /\ ConstraintThree

\* C23 amended: a learned clause returned before the copy of the trail is
\* exhausted has exactly one existential literal at the greatest decision
\* level of its existential literals, the decision recorded last at that level
\* (the first one met scanning the trail from its end) is on an existential
\* variable, and its universal literals of a smaller quantifier level than
\* that literal are assigned false
StoppingConstraintsMetAtLastDecision ==
    Learned => ConstraintOne /\ LastDecisionExistential /\ ConstraintThree

\* a clause is learned at a level that a decision on a universal variable
\* opened and at which the second branch of an existential decision runs
LearnedAfterSecondBranch ==
    /\ Learned
    /\ ~OpenedByExistential
    /\ \E u \in LearnedLiterals : variable_quantification[Abs(u)].q_type = "A"

\* analyse_conflict returns a learned clause
ReturnsLearned == Analysing /\ ~Analysis.panic /\ ~is_empty(Analysis.clause)

\* the greatest decision level of the existential literals of the learned
\* clause (-1 if it has none)
HighestLevel ==
    IF LearnedExistentials = {} THEN -1
    ELSE CHOOSE h \in {AssignedLevel(l) : l \in LearnedExistentials} :
            \A l \in LearnedExistentials : AssignedLevel(l) <= h

OtherLevels == {AssignedLevel(l) : l \in LearnedLiterals} \ {HighestLevel}

\* the level the claim gives for the learned clause
ExpectedLevel ==
    IF Cardinality(LearnedLiterals) = 1 THEN 0
    ELSE LET level == IF OtherLevels = {} THEN HighestLevel - 1
                      ELSE CHOOSE x \in OtherLevels : \A y \in OtherLevels : y <= x
         IN IF level = 0 THEN 1 ELSE level

LevelAsComputed == ReturnsLearned => Analysis.backtrack_level = ExpectedLevel

LevelInRange ==
    ReturnsLearned =>
        /\ 0 <= Analysis.backtrack_level
        /\ Analysis.backtrack_level <= Propagated.m.decision_level

\* C24 as stated: the level returned with a learned clause is 0 for a unit
\* clause, else the greatest decision level of its literals other than the
\* greatest level h of its existential literals, or h - 1 without such a
\* literal, raised to 1 when 0; and it lies between 0 and the decision level
\* at which the conflict was met
BacktrackLevel == LevelAsComputed /\ LevelInRange

\* a clause of several literals, all at level 1, is learned: the level 0 is
\* raised to 1
LevelRaised ==
    /\ ReturnsLearned
    /\ Cardinality(LearnedLiterals) >= 2
    /\ OtherLevels = {}
    /\ HighestLevel = 1
    /\ Analysis.backtrack_level = 1

\* the conflict-clause slot of a matrix of the CDCL pipeline holds the
\* original form of a clause that is empty in the clause list
HoldsEmptied(m) ==
    \E i \in 1..Len(m.clause_list) :
        /\ i <= Len(m.original_clause_list)
        /\ is_empty(m.clause_list[i])
        /\ m.conflict_clause = <<m.original_clause_list[i]>>

\* a step in which the slot of the matrix is set: a pass of unit propagation
\* (of preprocess here, the pass of a driver call is followed by its analysis
\* within the step of the call) that emptied a clause
SlotSetByPropagation ==
    (solver = "CDCL" /\ matrix # NoMatrix /\ matrix' # NoMatrix
       /\ matrix'.conflict_clause # <<>> /\ matrix'.conflict_clause # matrix.conflict_clause) =>
        /\ pc = "pp_unit"
        /\ contains_empty_clause(matrix')
        /\ HoldsEmptied(matrix')

\* the slot is empty when a pass of the loop of cdcl begins, so that an
\* analysis consumes only what the propagation of its own pass has set, and
\* empty again after the analysis or the restart
SlotConsumedAtOnce ==
    (pc = "call" /\ solver = "CDCL") =>
        /\ matrix.conflict_clause = <<>>
        /\ (Analysing /\ Propagated.m.conflict_clause # <<>>) => HoldsEmptied(Propagated.m)
        /\ (pc' = "ret" /\ ret'.result \in {"UNSAT", "Restart"}) => matrix'.conflict_clause = <<>>

\* C25: the conflict-clause slot is set only by a pass of unit propagation
\* that emptied a clause and then holds the original form of the first clause
\* emptied; it is empty again after the conflict analysis or the restart that
\* follows, and no conflict analysis consumes a value set by an earlier pass,
\* a pass of preprocessing included
ConflictSlotFresh == [][SlotSetByPropagation /\ SlotConsumedAtOnce]_vars

\* unit_propagate has dequeued a literal of a universal variable
UniversalDequeued ==
    /\ operation.name = "propagate_literal"
    /\ operation.returned
    /\ variable_quantification[Abs(operation.literal)].q_type = "A"

\* the call set clause_count to -1 and left every clause as it was
ReturnedAtOnce ==
    \A m \in operation.value :
        /\ m.clause_count = -1
        /\ m.clause_list = operation.before.clause_list
        /\ m.clause_references = operation.before.clause_references

\* C26 as stated: unit propagation that dequeues a literal of a universal
\* variable, a decision or an implied unit, sets clause_count to -1 and
\* returns without marking a clause removed or deleting a literal
UniversalEndsPropagation == UniversalDequeued => ReturnedAtOnce

\* C26 amended: it does so when the entry of the variable is still in the
\* quantifier prefix (a unit literal); a decision, whose entry select_literal
\* has taken from the prefix, is propagated like an existential literal
ListedUniversalEndsPropagation ==
    (UniversalDequeued /\ operation.listed) => ReturnedAtOnce

\* a unit literal of a universal variable is dequeued from a matrix in which
\* both the literal and its complement occur
UniversalUnitDequeued ==
    /\ UniversalDequeued
    /\ operation.listed
    /\ operation.variant = "CDCL"
    /\ contains_key(operation.before.clause_references, operation.literal)
    /\ contains_key(operation.before.clause_references, -operation.literal)

\* the clause list and the original clause list are aligned
Aligned(m) ==
    /\ Len(m.clause_list) = Len(m.original_clause_list)
    /\ \A i \in 1..Len(m.learned_clause_refs) :
          /\ m.learned_clause_refs[i] >= 1
          /\ m.learned_clause_refs[i] <= Len(m.clause_list)
          /\ m.learned_clause_refs[i] <= Len(m.original_clause_list)
    /\ \A i \in 1..Len(m.clause_list) :
          i <= Len(m.original_clause_list) =>
              Range(get_literal_list(m.clause_list[i]))
                  \subseteq Range(get_literal_list(m.original_clause_list[i]))

\* C27: between the steps of the CDCL driver the clause list and the original
\* clause list have the same length, every index of learned_clause_refs is an
\* index of both, and the literals of clause i of the clause list are among
\* those of clause i of the original clause list
ClauseListsAligned ==
    (solver = "CDCL" /\ pc \in {"pre_resolution", "call", "ret"}) => Aligned(matrix)

\* a second branch is about to be propagated on a database to which the
\* restore of the frame re-attached a learned clause its snapshot did not hold
ReattachedByRestore ==
    /\ solver = "CDCL"
    /\ pc = "call"
    /\ stack # <<>>
    /\ stack[Len(stack)].tail
    /\ arg = -stack[Len(stack)].literal
    /\ ~Assigned(matrix, arg)
    /\ matrix.learned_clause_refs # <<>>
    /\ Len(stack[Len(stack)].stored_structures.clause_list) < Len(matrix.clause_list)
    /\ Len(matrix.clause_list) = Len(matrix.original_clause_list)

\* ------------------------------------------------------------------- C28
\* the number of clauses of the clause list whose removed flag is not set
CountLive(m) == Cardinality({i \in 1..Len(m.clause_list) : ~m.clause_list[i].is_removed})

\* C28: in every state of either solver in which clause_count is not -1,
\* clause_count is the number of clauses of the clause list whose removed
\* flag is not set
ClauseCountExact ==
    (pc # "new" /\ matrix.clause_count # -1) => matrix.clause_count = CountLive(matrix)

\* ------------------------------------------------------------------- C29
\* the next pass of the loop of cdcl finds a conflict after its propagation
ConflictOnEntry ==
    /\ pc = "call"
    /\ solver = "CDCL"
    /\ ~expired
    /\ WithinSearchBounds
    /\ ~Propagated.panic
    /\ Propagated.m.clause_count = -1

\* ... while restarts are enabled and the restart criterion is met
RestartDue ==
    /\ ConflictOnEntry
    /\ config.restarts
    /\ Propagated.m.restart_data.current_conflicts
          = Propagated.m.restart_data.conflicts_until_restart

\* the restart state and the conflict-clause slot set aside
WithoutRestartState(m) ==
    [m EXCEPT !.restart_data = RestartDataNew(0), !.conflict_clause = <<>>]

\* C29: a call of cdcl returns a Restart of its own making exactly when it
\* finds a conflict on entry while restarts are enabled and current_conflicts
\* equals conflicts_until_restart; that step adds one to restart_counter, sets
\* conflicts_until_restart to the Luby threshold of the new counter, sets
\* current_conflicts to 0, clears the conflict-clause slot and changes nothing
\* else of what the propagation left (no analysis, no learned clause); with
\* restarts disabled no call returns Restart and the restart state stays as
\* RestartData::new made it
RestartOnDueConflict ==
    [][LET made == /\ pc' = "ret"
                   /\ ret'.result = "Restart"
                   /\ ~(pc = "ret" /\ ret.result = "Restart")
       IN /\ made <=> (RestartDue /\ expired' = expired)
          /\ made =>
                /\ ret' = [learned_clause |-> new_empty_clause, backtrack_level |-> -1,
                           result |-> "Restart"]
                /\ matrix'.restart_data.restart_counter
                      = Propagated.m.restart_data.restart_counter + 1
                /\ matrix'.restart_data.restart_counter <= Len(LubySequence)
                /\ matrix'.restart_data.conflicts_until_restart
                      = matrix'.restart_data.constant
                          * LubySequence[matrix'.restart_data.restart_counter]
                /\ matrix'.restart_data.constant = Propagated.m.restart_data.constant
                /\ matrix'.restart_data.current_conflicts = 0
                /\ matrix'.conflict_clause = <<>>
                /\ WithoutRestartState(matrix') = WithoutRestartState(Propagated.m)
          /\ (solver' = "CDCL" /\ ~config'.restarts /\ pc' \notin {"new"}) =>
                /\ ret'.result # "Restart"
                /\ matrix'.restart_data = RestartDataNew(restart_constant)]_vars

\* a call has just returned the second Restart of the run
SecondRestartMade ==
    /\ solver = "CDCL"
    /\ pc = "ret"
    /\ ret.result = "Restart"
    /\ matrix.restart_data.restart_counter = 3
    /\ matrix.restart_data.current_conflicts = 0
    /\ matrix.conflict_clause = <<>>

\* ------------------------------------------------------------------- C30
\* a Restart has reached the frame whose snapshot is of decision level 1
RestartAtLevelOne ==
    /\ pc = "ret"
    /\ solver = "CDCL"
    /\ ret.result = "Restart"
    /\ stack # <<>>
    /\ ~stack[Len(stack)].tail
    /\ stack[Len(stack)].stored_structures.decision_level = 1

\* the indices of the older half of the learned clauses
OlderHalf ==
    {matrix.learned_clause_refs[j] : j \in 1..(Len(matrix.learned_clause_refs) \div 2)}

\* the k-th index of the original clause list outside the older half
KeptIndex(k) ==
    CHOOSE i \in (1..Len(matrix.original_clause_list)) \ OlderHalf :
        Cardinality((1..i) \ OlderHalf) = k

\* C30: the frame of level 1 that receives a Restart resumes its loop at
\* decision level 0 with the quantifier prefix it had before selecting, with no
\* record of a level above 0 on the trail or in the assignment map, and with
\* the older half of the learned clauses deleted from the clause database
RestartResumesAtLevelZero ==
    [][RestartAtLevelOne =>
          LET frame == stack[Len(stack)]
              n == Len(matrix.learned_clause_refs)
              kept == Len(matrix.original_clause_list) - Cardinality(OlderHalf)
          IN /\ pc' = "call"
             /\ arg' = frame.decision_branch
             /\ matrix'.decision_level = 0
             /\ matrix'.quantifier_list = frame.pre_selection_quantifier_list
             /\ \A i \in 1..Len(matrix'.trail) : matrix'.trail[i].decision_level <= 0
             /\ \A v \in DOMAIN matrix'.assignments :
                   matrix'.assignments[v].value # 0 =>
                       matrix'.assignments[v].decision_level <= 0
             /\ Len(matrix'.learned_clause_refs) = n - (n \div 2)
             /\ Len(matrix'.original_clause_list) = kept
             /\ Len(matrix'.clause_list) = kept
             /\ \A k \in 1..kept :
                   matrix'.original_clause_list[k] = matrix.original_clause_list[KeptIndex(k)]
             /\ \A i \in 1..(n - (n \div 2)) :
                   matrix'.original_clause_list[matrix'.learned_clause_refs[i]]
                      = matrix.original_clause_list[matrix.learned_clause_refs[(n \div 2) + i]]]_vars

\* the search has resumed at level 0 after its second restart, which deleted
\* the older of two learned clauses
ResumedAfterReduction ==
    /\ solver = "CDCL"
    /\ pc = "call"
    /\ ret.result = "none"
    /\ matrix.decision_level = 0
    /\ matrix.restart_data.restart_counter = 3
    /\ matrix.restart_data.current_conflicts = 0
    /\ Len(matrix.learned_clause_refs) = 1

\* ------------------------------------------------------------------- C31
\* the matrix the frame of level 1 hands to reduce_clause_database
BeforeReduction ==
    restore_necessary_structures(matrix, stack[Len(stack)].stored_structures).m

\* the k-th index of the clause lists outside the indices dropped
KeptOf(dropped, k) ==
    CHOOSE i \in (1..Len(BeforeReduction.clause_list)) \ dropped :
        Cardinality((1..i) \ dropped) = k

\* C31: reduce_clause_database called with n learned clauses deletes the
\* floor(n/2) learned clauses added first from the clause list and from the
\* original clause list and no other clause; learned_clause_refs keeps
\* n - floor(n/2) entries, each the index in both lists of the learned clause
\* it was the index of, and the index of clause references is that of the new
\* positions
ReductionDropsOlderHalf ==
    [][RestartAtLevelOne =>
          LET b == BeforeReduction
              n == Len(b.learned_clause_refs)
              dropped == {b.learned_clause_refs[j] : j \in 1..(n \div 2)}
              kept == Len(b.clause_list) - (n \div 2)
          IN /\ Cardinality(dropped) = n \div 2
             /\ Len(matrix'.clause_list) = kept
             /\ Len(matrix'.original_clause_list) = kept
             /\ \A k \in 1..kept :
                   /\ matrix'.clause_list[k] = b.clause_list[KeptOf(dropped, k)]
                   /\ matrix'.original_clause_list[k]
                         = b.original_clause_list[KeptOf(dropped, k)]
             /\ Len(matrix'.learned_clause_refs) = n - (n \div 2)
             /\ \A i \in 1..(n - (n \div 2)) :
                   LET new == matrix'.learned_clause_refs[i]
                       old == b.learned_clause_refs[(n \div 2) + i]
                   IN /\ new \in 1..kept
                      /\ matrix'.clause_list[new] = b.clause_list[old]
                      /\ matrix'.original_clause_list[new] = b.original_clause_list[old]
             /\ \A l \in Lits :
                   /\ \A j \in 1..Len(matrix'.clause_references[l]) :
                         LET i == matrix'.clause_references[l][j]
                         IN /\ i \in 1..kept
                            /\ l \in Range(get_literal_list(matrix'.clause_list[i]))
                   /\ \A i \in 1..kept :
                         l \in Range(get_literal_list(matrix'.clause_list[i]))
                            => Contains(matrix'.clause_references[l], i)]_vars

\* a reduction has deleted the older of two learned clauses and the index
\* refers to the other one at its new position
OlderLearnedDropped ==
    /\ solver = "CDCL"
    /\ pc = "call"
    /\ ret.result = "none"
    /\ matrix.restart_data.restart_counter = 3
    /\ Len(matrix.learned_clause_refs) = 1
    /\ matrix.learned_clause_refs[1] = Len(matrix.clause_list)
    /\ \E l \in Lits : Contains(matrix.clause_references[l], Len(matrix.clause_list))

\* ------------------------------------------------------------------- C32
\* the next pass of the loop of cdcl propagates its decision_branch
Propagating ==
    /\ pc = "call"
    /\ solver = "CDCL"
    /\ ~expired
    /\ WithinSearchBounds
    /\ arg # 0
    /\ ~Propagated.panic

\* the trail that propagation leaves and the position of its first new record
TrailAfter == Propagated.m.trail

FirstNew == Len(matrix.trail) + 1

\* the literals other than its own of the original clause a record names
OthersOf(record) ==
    Range(get_literal_list(Propagated.m.original_clause_list[record.clause_responsible]))
        \ {record.value}

\* the position of the record processed when the reason clause of the record
\* at position k became unit: the last one before k that falsifies a literal
\* of that clause (0 when there is none)
UnitSince(k) ==
    LET falsifying == {p \in 1..(k - 1) : -TrailAfter[p].value \in OthersOf(TrailAfter[k])}
    IN IF falsifying = {} THEN 0
       ELSE CHOOSE p \in falsifying : \A q \in falsifying : q <= p

\* C32: a propagation call of the CDCL driver appends one trail record per
\* literal it processes, all of the current decision level: first the decision
\* literal without a reason, then the implied literals in the order in which
\* their clauses became unit, each with the index of the clause that became
\* unit on it
TrailInQueueOrder ==
    Propagating =>
        /\ Len(TrailAfter) = Len(matrix.trail) + Propagated.propagation_count
        /\ SubSeq(TrailAfter, 1, Len(matrix.trail)) = matrix.trail
        /\ Propagated.propagation_count >= 1
        /\ TrailAfter[FirstNew]
              = [value |-> arg, decision_level |-> matrix.decision_level,
                 clause_responsible |-> 0]
        /\ \A k \in (FirstNew + 1)..Len(TrailAfter) :
              /\ TrailAfter[k].decision_level = matrix.decision_level
              /\ TrailAfter[k].clause_responsible \in 1..Len(Propagated.m.clause_list)
              /\ TrailAfter[k].clause_responsible
                    \in 1..Len(Propagated.m.original_clause_list)
              /\ get_literal_list(Propagated.m.clause_list[TrailAfter[k].clause_responsible])
                    = <<TrailAfter[k].value>>
              /\ UnitSince(k) >= FirstNew
              /\ \A j \in (FirstNew + 1)..(k - 1) : UnitSince(j) <= UnitSince(k)

\* a propagation is about to process three implied literals, the last of them
\* implied by a clause that became unit later than those of the other two
ImpliedInTwoRounds ==
    /\ Propagating
    /\ Len(TrailAfter) >= FirstNew + 3
    /\ UnitSince(FirstNew + 1) = FirstNew
    /\ UnitSince(FirstNew + 2) = FirstNew
    /\ UnitSince(FirstNew + 3) = FirstNew + 1

\* ------------------------------------------------------------------- C33
\* pre_resolution runs in this step and returns
Resolving == pc = "pre_resolution" /\ config.pre_resolution

\* the literals of a clause
LiteralsOf(c) == Range(get_literal_list(c))

\* the resolvents on existential pivots of two clauses with literals in known,
\* a set of sets of literals, that hold no literal with its complement
ResolventsOf(known) ==
    {r \in {(a \cup b) \ {x, -x} : a \in known, b \in known, x \in Lits} :
        /\ \E a \in known, b \in known, x \in Lits :
              /\ QType(Abs(x)) = "E"
              /\ x \in a
              /\ -x \in b
              /\ r = (a \cup b) \ {x, -x}
        /\ \A l \in r : -l \notin r}

\* what iterations of resolution can derive from the clauses of a list
RECURSIVE KnownAfter(_, _)
KnownAfter(known, iterations) ==
    IF iterations = 0 THEN known
    ELSE KnownAfter(known \cup ResolventsOf(known), iterations - 1)

\* C33: pre_resolution leaves the clauses it found unchanged at their indices;
\* every clause it appends is a resolvent without complementary literals of two
\* known clauses on an existential pivot, is no longer than max_clause_length
\* and differs from every clause found and from every other appended clause;
\* clause_count grows by the number of appended clauses and the index gains
\* their literals, and nothing else
ResolventsAppended ==
    [][(Resolving /\ pc' = "call") =>
          LET n == Len(matrix.clause_list)
              n1 == Len(matrix'.clause_list)
              found == {LiteralsOf(matrix.clause_list[i]) : i \in 1..n}
              parents == KnownAfter(found, config.resolution_config.iterations - 1)
          IN /\ n1 >= n
             /\ SubSeq(matrix'.clause_list, 1, n) = matrix.clause_list
             /\ \A k \in (n + 1)..n1 :
                   LET c == matrix'.clause_list[k] IN
                   /\ LiteralsOf(c) \in ResolventsOf(parents)
                   /\ ~c.is_removed
                   /\ Len(get_literal_list(c)) = Cardinality(LiteralsOf(c))
                   /\ Cardinality(LiteralsOf(c)) <= config.resolution_config.max_clause_length
                   /\ \A i \in 1..n1 :
                         i # k => LiteralsOf(matrix'.clause_list[i]) # LiteralsOf(c)
             /\ matrix'.clause_count = matrix.clause_count + (n1 - n)
             /\ \A l \in Lits :
                   matrix'.clause_references[l]
                      = matrix.clause_references[l]
                          \o SelectSeq([i \in 1..(n1 - n) |-> n + i],
                                       LAMBDA k : l \in LiteralsOf(matrix'.clause_list[k]))]_vars

\* pre_resolution has appended resolvents found in two iterations to the
\* clauses of the instance, which the search is about to start on
ResolventsFound ==
    /\ solver = "DPLL"
    /\ pc = "call"
    /\ stack = <<>>
    /\ ret.result = "none"
    /\ config.pre_resolution
    /\ config.resolution_config.iterations = 2
    /\ Len(matrix.clause_list) >= Len(formula) + 2
    /\ \E k \in (Len(formula) + 1)..Len(matrix.clause_list) :
          LiteralsOf(matrix.clause_list[k])
              \notin ResolventsOf({Range(formula[i]) : i \in 1..Len(formula)})

\* the caps pre_resolution computes before its loops
ResolvedClausesCap == Scaled(Len(matrix.clause_list), config.resolution_config.max_ratio)

ResolutionsPerLiteral == Scaled(Len(matrix.clause_list), config.resolution_config.min_ratio) \div Len(matrix.quantifier_list)

FoundClauses == {LiteralsOf(matrix.clause_list[i]) : i \in 1..Len(matrix.clause_list)}

NewResolvents == ResolventsOf(FoundClauses) \ FoundClauses

\* a pre_resolution step whose length filter lets every accepted resolvent through
ResolvingUnfiltered == Resolving /\ pc' = "call" /\ config.resolution_config.max_clause_length = UsizeMax

AppendedResolvents == {LiteralsOf(matrix'.clause_list[k]) : k \in (Len(matrix.clause_list) + 1)..Len(matrix'.clause_list)}

PairCount(refs, literal) == Len(refs[literal]) * Len(refs[-literal])

PairAt(refs, literal, k) == <<refs[literal][((k - 1) \div Len(refs[-literal])) + 1], refs[-literal][((k - 1) % Len(refs[-literal])) + 1]>>

\* the resolvents accepted on one literal from pair k on, when every accepted
\* resolvent is counted and the count is compared with the cap after an accepted
\* resolvent of length at most repeat_above and after the last pair of a clause_1
RECURSIVE AcceptedOnLiteral(_, _, _, _, _, _, _)
AcceptedOnLiteral(clauses, refs, literal, k, known, count, cap) ==
    IF k > PairCount(refs, literal) THEN <<>>
    ELSE LET pair == PairAt(refs, literal, k)
             resolution == resolve(get_literal_list(clauses[pair[1]]), get_literal_list(clauses[pair[2]]), literal)
             clause == convert_literals_to_clause(resolution.literals)
             accepted == resolution.valid /\ clause \notin known
             counted == IF accepted THEN count + 1 ELSE count
             tested == \/ accepted /\ Len(resolution.literals) <= config.resolution_config.repeat_above
                       \/ k % Len(refs[-literal]) = 0
             rest == IF tested /\ counted >= cap THEN <<>>
                     ELSE AcceptedOnLiteral(clauses, refs, literal, k + 1, IF accepted THEN known \cup {clause} ELSE known, counted, cap)
         IN IF accepted THEN <<clause>> \o rest ELSE rest

\* the resolvents accepted in one iteration from prefix position q on: the
\* global cap is compared after each prefix literal
RECURSIVE AcceptedInIteration(_, _, _, _, _, _, _)
AcceptedInIteration(clauses, refs, q, known, accepted, cap, global_cap) ==
    IF q > Len(matrix.quantifier_list) THEN accepted
    ELSE LET quantifier == matrix.quantifier_list[q]
             here == IF /\ quantifier.q_type = "E"
                        /\ contains_key(refs, quantifier.literal)
                        /\ contains_key(refs, -quantifier.literal)
                     THEN AcceptedOnLiteral(clauses, refs, quantifier.literal, 1, known, 0, cap)
                     ELSE <<>>
         IN IF Len(accepted \o here) > global_cap THEN accepted \o here
            ELSE AcceptedInIteration(clauses, refs, q + 1, known \cup Range(here), accepted \o here, cap, global_cap)

\* the resolvents accepted over the iterations, each on the clauses found so far
RECURSIVE AcceptedInRun(_, _, _, _, _, _)
AcceptedInRun(iteration, clauses, refs, known, cap, global_cap) ==
    IF iteration >= config.resolution_config.iterations THEN <<>>
    ELSE LET here == AcceptedInIteration(clauses, refs, 1, known, <<>>, cap, global_cap)
         IN IF here = <<>> THEN <<>>
            ELSE here \o AcceptedInRun(iteration + 1, clauses \o here, add_resolved_clauses_independently(clauses, refs, here).clause_references, known \cup Range(here), cap, global_cap)

AnalysisNeverAborts == Analysing => ~Analysis.panic

\* the states of a CDCL run between two steps of the driver
InCdclRun == solver = "CDCL" /\ pc \in {"pre_resolution", "call", "ret"}

\* a literal is falsified by a trail record before position k
FalsifiedBefore(k, literal) == \E j \in 1..(k - 1) : matrix.trail[j].value = -literal

\* C36: for every trail record that is an implication, its reason index lies
\* within the original clause list, the clause there contains the record's
\* literal and each of its other literals is falsified by an earlier record.
ReasonsJustifyImplications == InCdclRun => \A k \in 1..Len(matrix.trail) : ~is_decision(matrix.trail[k]) => (/\ matrix.trail[k].clause_responsible \in 1..Len(matrix.original_clause_list) /\ matrix.trail[k].value \in LiteralsOf(matrix.original_clause_list[matrix.trail[k].clause_responsible]) /\ \A l \in LiteralsOf(matrix.original_clause_list[matrix.trail[k].clause_responsible]) \ {matrix.trail[k].value} : FalsifiedBefore(k, l))

\* C37: the trail holds at most one record per variable, the assignment map
\* holds for each assigned variable a record that is on the trail and for each
\* trail record that very record, and the decision levels along the trail never
\* decrease and never exceed the current decision level.
TrailConsistent ==
    InCdclRun =>
        /\ \A i, j \in 1..Len(matrix.trail) :
              Abs(matrix.trail[i].value) = Abs(matrix.trail[j].value) => i = j
        /\ \A v \in 1..Len(matrix.assignments) :
              matrix.assignments[v].value # 0
                  => \E i \in 1..Len(matrix.trail) : matrix.trail[i] = matrix.assignments[v]
        /\ \A i \in 1..Len(matrix.trail) :
              matrix.assignments[Abs(matrix.trail[i].value)] = matrix.trail[i]
        /\ \A i, j \in 1..Len(matrix.trail) :
              i <= j => matrix.trail[i].decision_level <= matrix.trail[j].decision_level
        /\ \A i \in 1..Len(matrix.trail) :
              matrix.trail[i].decision_level <= matrix.decision_level

\* the clause has a literal that the assignment of m makes true
SatisfiedIn(m, clause) ==
    \E l \in LiteralsOf(clause) : m.assignments[Abs(l)].value = l

\* the frame that receives a learned clause commits it with add_clause: either
\* its level is the backtrack level, or the clause is a unit and the level is 1
Commits ==
    /\ Restoring /\ ~Restored.panic /\ ret.result = "UNSAT"
    /\ \/ /\ ret.backtrack_level = Restored.m.decision_level
          /\ ~is_empty(ret.learned_clause)
       \/ /\ ret.backtrack_level # Restored.m.decision_level
          /\ is_unit_clause(ret.learned_clause) # 0
          /\ Restored.m.decision_level = 1

\* the learned clauses that the restore of the frame re-attaches
Reattached ==
    {r \in Range(matrix.learned_clause_refs) :
        r > Len(Snapshot.clause_list) /\ r <= Len(matrix.original_clause_list)}

\* C38: a learned clause that is committed by add_clause or re-attached by
\* readd_learned_clauses has no literal made true by the assignment it is
\* stripped under, and while clause_count is not -1 no live copy of a learned
\* clause is the empty clause.
LearnedClauseNeverSatisfied ==
    /\ Commits => ~SatisfiedIn(Restored.m, ret.learned_clause)
    /\ Restoring =>
          \A r \in Reattached : ~SatisfiedIn(Restored.m, matrix.original_clause_list[r])
    /\ (InCdclRun /\ matrix.clause_count # -1) =>
          \A r \in Range(matrix.learned_clause_refs) :
              r <= Len(matrix.clause_list) => ~is_empty(matrix.clause_list[r])

\* a frame commits a learned clause of which a literal is assigned false,
\* so that the live copy is shorter than the clause
CommitStripsFalsifiedLiteral ==
    /\ Commits
    /\ \E l \in LiteralsOf(ret.learned_clause) :
          Restored.m.assignments[Abs(l)].value = -l

\* C39: as long as the deadline has not passed, a CDCL run that has ended has
\* ended with the outermost call returning SAT or UNSAT, and a run that has not
\* ended goes on within the bounds MaxLearned and MaxRestarts of the search: it
\* does not keep learning clauses or restarting without end.
CdclRunDecides ==
    (solver = "CDCL" /\ ~expired) =>
        /\ pc = "done" => cdcl_result \in {"SAT", "UNSAT"}
        /\ pc = "call" => WithinSearchBounds
====
